---- MODULE Spec2Model ----
(***************************************************************************)
(* Page-image decision pipeline of PDF-toolkit: gutter detection, spread   *)
(* splitting, bright-region crop boxes, outer-margin clamp, left/right     *)
(* symmetry, printed-page-number extraction and the batch run over a       *)
(* folder with its effects on the filesystem.                              *)
(*                                                                         *)
(* Conventions.  An image is a record [width, height, px] with px[x][y]    *)
(* the grayscale value of column x, row y (0-based, as in the code).  A    *)
(* Python float parameter is the exact ratio <<n, d>>; the parameters are  *)
(* drawn from ratios for which the float product of the code is exact.     *)
(* Python's None is the string "None" where the value is a string, and the *)
(* empty tuple <<>> where it is a box or an integer (an integer n is       *)
(* then <<n>>).  OCR text is the sequence of its characters, a region name *)
(* "<anchor>_<position>" the pair <<anchor, position>>; for these None is  *)
(* <<>> as well.  A filesystem path is the record [dir, stem] of its       *)
(* directory and the stem of its name; the filesystem maps each existing   *)
(* path to "dir" or "file".                                                *)
(***************************************************************************)
EXTENDS Integers, Sequences, FiniteSets, TLC

VARIABLES
    pc,        \* position of the call under way
    image,     \* the image the call is given
    args,      \* the arguments of the call
    ret,       \* what the call returned
    \* extract_printed_page_number: its locals and the engine's trace
    regions,           \* region names, in the order they are tried
    region_idx,        \* 1-based index of the region under way
    psm_idx,           \* 1-based index of the psm candidate under way
    last_raw,          \* raw text of the region's latest OCR invocation
    saw_out_of_range,
    error_messages,
    result,            \* the result dictionary being filled
    calls,             \* the OCR invocations made so far, with their output
    tmp_files,         \* the temporary image files on disk
    \* page_images_in_folder
    fs,                \* the filesystem: each existing path and its kind
    files,             \* the input files collected, in processing order
    position,          \* how many of them the loop has gone through
    effects,           \* the run's filesystem operations, in order
    recorder_actions,  \* recorder.actions
    counters,          \* processed, split_count, crop_only_count, skipped
    error_message

ocr_vars ==
    <<regions, region_idx, psm_idx, last_raw, saw_out_of_range,
      error_messages, result, calls, tmp_files>>

run_vars ==
    <<fs, files, position, effects, recorder_actions, counters, error_message>>

vars == <<pc, image, args, ret, ocr_vars, run_vars>>

\* ------------------------------------------------------------------ bounds
MaxW == 3
MaxH == 2

\* ----------------------------------------------------------------- helpers
None == "None"
NoBox == <<>>

Max2(a, b) == IF a >= b THEN a ELSE b
Min2(a, b) == IF a <= b THEN a ELSE b
SetMin(S) == CHOOSE m \in S : \A s \in S : m <= s
SetMax(S) == CHOOSE m \in S : \A s \in S : m >= s

\* int(n * f) for an integer n >= 0 and a float f >= 0 given as <<num, den>>
IntMul(n, f) == (n * f[1]) \div f[2]

\* Grayscale values of the synthetic scans: dark background, bright page.
GrayLevels == {10, 245}

\* image is some w x h image with 1 <= w <= max_w and 1 <= h <= max_h.
SomeImage(im, max_w, max_h) ==
    \E w \in 1 .. max_w, h \in 1 .. max_h :
        \E p \in [0 .. w - 1 -> [0 .. h - 1 -> GrayLevels]] :
            im = [width |-> w, height |-> h, px |-> p]

NoImage == [width |-> 0, height |-> 0, px |-> <<>>]
NoArgs == [none |-> TRUE]
NoRet == [none |-> TRUE]

\* No page-number extraction is under way.
OcrIdle ==
    /\ regions = <<>>
    /\ region_idx = 0
    /\ psm_idx = 0
    /\ last_raw = <<>>
    /\ saw_out_of_range = FALSE
    /\ error_messages = <<>>
    /\ result = NoRet
    /\ calls = <<>>
    /\ tmp_files = {}

NoCounters == [processed |-> 0, split_count |-> 0, crop_only_count |-> 0, skipped |-> 0]

\* No batch run is under way.
RunIdle ==
    /\ fs = <<>>
    /\ files = <<>>
    /\ position = 0
    /\ effects = <<>>
    /\ recorder_actions = <<>>
    /\ counters = NoCounters
    /\ error_message = None

\* --------------------------------------------------- outer black bar (4.4)
\* The index after the last column of the release run.
bar_width_after_run(idx, consecutive_release) == idx + 1

\* bar_width = idx - consecutive_release + 1
bar_width(idx, consecutive_release) == idx - consecutive_release + 1

\* The column scan of detect_outer_black_bar_px from column index idx on.
RECURSIVE bar_scan(_, _, _, _, _, _)
bar_scan(im, p, search_width, idx, saw_bar, consecutive_release) ==
    IF idx >= search_width
    THEN (IF saw_bar THEN search_width ELSE 0)
    ELSE
      LET x == IF p.side = "left" THEN idx ELSE im.width - 1 - idx
          dark_count ==
              Cardinality({ y \in 0 .. im.height - 1 : im.px[x][y] < p.dark_threshold })
          \* dark_fraction = dark_count / height, compared as exact ratios
          is_bar == dark_count * p.dark_frac_cutoff[2] >= p.dark_frac_cutoff[1] * im.height
          is_release == dark_count * p.release_frac[2] <= p.release_frac[1] * im.height
      IN  IF is_bar
          THEN bar_scan(im, p, search_width, idx + 1, TRUE, 0)
          ELSE IF saw_bar /\ is_release
               THEN IF consecutive_release + 1 >= p.min_run_px
                    THEN Max2(0, bar_width(idx, consecutive_release + 1))
                    ELSE bar_scan(im, p, search_width, idx + 1, saw_bar,
                                  consecutive_release + 1)
               ELSE bar_scan(im, p, search_width, idx + 1, saw_bar,
                             IF saw_bar THEN 0 ELSE consecutive_release)

detect_outer_black_bar_px(im, p) ==
    IF im.width <= 0 \/ im.height <= 0
    THEN 0
    ELSE bar_scan(im, p, Max2(1, Min2(im.width, IntMul(im.width, p.search_frac))),
                  0, FALSE, 0)

\* The padded bar width without the cap.
applied_clamp_px_uncapped(detected_bar_px, outer_margin_pad_px, max_clamp_px) ==
    detected_bar_px + outer_margin_pad_px

\* applied_clamp_px = min(detected_bar_px + outer_margin_pad_px, max_clamp_px)
applied_clamp_px(detected_bar_px, outer_margin_pad_px, max_clamp_px) ==
    Min2(detected_bar_px + outer_margin_pad_px, max_clamp_px)

\* <<detected_bar_px, applied_clamp_px>>
resolve_outer_clamp_px(im, a) ==
    IF a.outer_margin_mode = "off"
    THEN <<0, 0>>
    ELSE IF a.outer_margin_mode = "fixed"
    THEN <<0, Max2(0, IntMul(im.width, a.outer_margin_frac))>>
    ELSE
      LET detected_bar_px ==
              detect_outer_black_bar_px(im,
                  [side |-> IF a.is_left_page THEN "left" ELSE "right",
                   search_frac |-> a.outer_margin_auto_search_frac,
                   dark_threshold |-> a.outer_margin_dark_threshold,
                   dark_frac_cutoff |-> a.outer_margin_dark_frac_cutoff,
                   release_frac |-> a.outer_margin_release_frac,
                   min_run_px |-> a.outer_margin_min_run_px])
          max_clamp_px == Max2(0, IntMul(im.width, a.outer_margin_auto_max_frac))
      IN  IF detected_bar_px <= 0
          THEN <<0, 0>>
          ELSE <<detected_bar_px,
                 Max2(0, applied_clamp_px(detected_bar_px, a.outer_margin_pad_px,
                                          max_clamp_px))>>

\* ------------------------------------------------- content crop box (4.3)
\* Image.getbbox of the mask "p >= crop_threshold": the tight box of the
\* bright pixels, NoBox when there is none.
mask_getbbox(im, crop_threshold) ==
    LET xs == { x \in 0 .. im.width - 1 :
                  \E y \in 0 .. im.height - 1 : im.px[x][y] >= crop_threshold }
        ys == { y \in 0 .. im.height - 1 :
                  \E x \in 0 .. im.width - 1 : im.px[x][y] >= crop_threshold }
    IN  IF xs = {} THEN NoBox
        ELSE <<SetMin(xs), SetMin(ys), SetMax(xs) + 1, SetMax(ys) + 1>>

\* A fallback that carries no note.
Fallback_without_note(im, note) ==
    [bbox |-> <<0, 0, im.width, im.height>>, used_fallback |-> TRUE, note |-> None]

Fallback(im, note) ==
    [bbox |-> <<0, 0, im.width, im.height>>, used_fallback |-> TRUE, note |-> note]

\* The edge inset without its "keep one pixel" guard.
inset_left_top_unguarded(box, inset) == <<box[1] + inset, box[2] + inset>>

\* The left and top edges after the edge inset.
inset_left_top(box, inset) ==
    <<Min2(box[3] - 1, box[1] + inset), Min2(box[4] - 1, box[2] + inset)>>

\* The right and bottom edges left where the padding put them.
inset_right_bottom_kept(box, lt, inset) == <<box[3], box[4]>>

\* The right and bottom edges after the edge inset; lt is the inset <<left, top>>.
inset_right_bottom(box, lt, inset) ==
    <<Max2(lt[1] + 1, box[3] - inset), Max2(lt[2] + 1, box[4] - inset)>>

\* The clamp applied to both sides of the box.
apply_outer_clamp_both_sides(left, right, width, clamp_px, is_left_page) ==
    IF clamp_px > 0
    THEN <<Max2(left, clamp_px), Min2(right, width - clamp_px)>>
    ELSE <<left, right>>

\* The outer boundary after the clamp: <<left, right>>.
apply_outer_clamp(left, right, width, clamp_px, is_left_page) ==
    IF clamp_px > 0
    THEN IF is_left_page
         THEN <<Max2(left, clamp_px), right>>
         ELSE <<left, Min2(right, width - clamp_px)>>
    ELSE <<left, right>>

\* The area test on the exact product, without int().
area_too_small_untruncated(bbox_area, image_area, min_area_frac) ==
    bbox_area * min_area_frac[2] < image_area * min_area_frac[1]

\* bbox_area < int(min_area_frac * image_area)
area_too_small(bbox_area, image_area, min_area_frac) ==
    bbox_area < IntMul(image_area, min_area_frac)

find_crop_bbox(im, a) ==
    LET bbox == mask_getbbox(im, a.crop_threshold)
    IN
    IF bbox = NoBox
    THEN Fallback(im, "No bright page region found; used full image.")
    ELSE
    LET bbox_area == (bbox[3] - bbox[1]) * (bbox[4] - bbox[2])
        image_area == im.width * im.height
    IN
    IF area_too_small(bbox_area, image_area, a.min_area_frac)
    THEN Fallback(im, "Detected page area too small; used full image.")
    ELSE
    LET pl == Max2(0, bbox[1] - a.pad_px)
        pt == Max2(0, bbox[2] - a.pad_px)
        pr == Min2(im.width, bbox[3] + a.pad_px)
        pb == Min2(im.height, bbox[4] + a.pad_px)
    IN
    IF pr <= pl \/ pb <= pt
    THEN Fallback(im, "Invalid crop bounds after padding; used full image.")
    ELSE
    LET inset == Max2(0, a.edge_inset_px)
        lt == inset_left_top(<<pl, pt, pr, pb>>, inset)
        rb == inset_right_bottom(<<pl, pt, pr, pb>>, lt, inset)
        il == IF inset > 0 THEN lt[1] ELSE pl
        it == IF inset > 0 THEN lt[2] ELSE pt
        ir == IF inset > 0 THEN rb[1] ELSE pr
        ib == IF inset > 0 THEN rb[2] ELSE pb
    IN
    IF ir <= il \/ ib <= it
    THEN Fallback(im, "Invalid crop bounds after edge inset; used full image.")
    ELSE
    LET clamp == resolve_outer_clamp_px(im, a)
        lr == apply_outer_clamp(il, ir, im.width, clamp[2], a.is_left_page)
    IN
    IF lr[2] <= lr[1] \/ ib <= it
    THEN Fallback(im, "Invalid crop bounds after outer margin clamp; used full image.")
    ELSE [bbox |-> <<lr[1], it, lr[2], ib>>, used_fallback |-> FALSE, note |-> None]

\* ------------------------------------------------- arguments of the calls
Quarter == <<1, 4>>
Half == <<1, 2>>
Whole == <<1, 1>>
Zero == <<0, 1>>

CropThresholds == {180}
PadChoices == {0, 1}
InsetChoices == {0, 1}
MinAreaFracs == {Quarter, Half}
FixedMarginFracs == {Zero, Quarter, Half}
AutoMaxFracs == {Quarter, Half}
AutoSearchFracs == {Half, Whole}
MinRunChoices == {1, 2}
OuterPadChoices == {0, 1}

\* find_crop_bbox's defaults (outer_margin_mode = "off")
CropDefaults ==
    [outer_margin_mode |-> "off", outer_margin_frac |-> Zero,
     outer_margin_auto_max_frac |-> <<15, 100>>,
     outer_margin_auto_search_frac |-> <<18, 100>>,
     outer_margin_dark_threshold |-> 80,
     outer_margin_dark_frac_cutoff |-> <<60, 100>>,
     outer_margin_release_frac |-> <<35, 100>>,
     outer_margin_min_run_px |-> 12, outer_margin_pad_px |-> 4]

OuterMarginArgs ==
    {CropDefaults}
    \* outer_margin_frac passed alone, the mode left at its default
    \cup { [CropDefaults EXCEPT !.outer_margin_frac = f] : f \in FixedMarginFracs }
    \cup { [CropDefaults EXCEPT !.outer_margin_mode = "fixed", !.outer_margin_frac = f] :
             f \in FixedMarginFracs }
    \cup { [CropDefaults EXCEPT !.outer_margin_mode = "auto",
                                !.outer_margin_auto_max_frac = m,
                                !.outer_margin_auto_search_frac = f,
                                !.outer_margin_min_run_px = r,
                                !.outer_margin_pad_px = q] :
             m \in AutoMaxFracs, f \in AutoSearchFracs,
             r \in MinRunChoices, q \in OuterPadChoices }

CropArgs ==
    { [crop_threshold |-> t, pad_px |-> p, min_area_frac |-> m, edge_inset_px |-> e,
       is_left_page |-> s, outer |-> o] :
        t \in CropThresholds, p \in PadChoices, m \in MinAreaFracs, e \in InsetChoices,
        s \in BOOLEAN, o \in OuterMarginArgs }

\* The keyword arguments of one find_crop_bbox call, flattened.
CropCall(c) ==
    [crop_threshold |-> c.crop_threshold, pad_px |-> c.pad_px,
     min_area_frac |-> c.min_area_frac, edge_inset_px |-> c.edge_inset_px,
     is_left_page |-> c.is_left_page,
     outer_margin_mode |-> c.outer.outer_margin_mode,
     outer_margin_frac |-> c.outer.outer_margin_frac,
     outer_margin_auto_max_frac |-> c.outer.outer_margin_auto_max_frac,
     outer_margin_auto_search_frac |-> c.outer.outer_margin_auto_search_frac,
     outer_margin_dark_threshold |-> c.outer.outer_margin_dark_threshold,
     outer_margin_dark_frac_cutoff |-> c.outer.outer_margin_dark_frac_cutoff,
     outer_margin_release_frac |-> c.outer.outer_margin_release_frac,
     outer_margin_min_run_px |-> c.outer.outer_margin_min_run_px,
     outer_margin_pad_px |-> c.outer.outer_margin_pad_px]

\* ------------------------------------------------ specification: cropping
InitCrop ==
    /\ pc = "start"
    /\ SomeImage(image, MaxW, MaxH)
    /\ args = NoArgs
    /\ ret = NoRet
    /\ OcrIdle
    /\ RunIdle

CallFindCropBbox ==
    /\ pc = "start"
    /\ \E c \in CropArgs :
         /\ args' = CropCall(c)
         /\ ret' = find_crop_bbox(image, CropCall(c))
    /\ pc' = "find_crop_bbox"
    /\ UNCHANGED <<run_vars, image, ocr_vars>>

NextCrop == CallFindCropBbox

SpecCrop == InitCrop /\ [][NextCrop]_vars

\* C1: for every image of width and height >= 1 and every combination of
\* crop_threshold, pad_px >= 0, edge_inset_px >= 0, outer-margin mode and
\* amounts and page side, find_crop_bbox returns, without raising, a box with
\* 0 <= left < right <= width and 0 <= top < bottom <= height.
ValidBox(b, w, h) ==
    /\ Len(b) = 4
    /\ 0 <= b[1] /\ b[1] < b[3] /\ b[3] <= w
    /\ 0 <= b[2] /\ b[2] < b[4] /\ b[4] <= h

C1_CropBoxAlwaysValid ==
    pc = "find_crop_bbox" => ValidBox(ret.bbox, image.width, image.height)

\* A clamped, inset, non-fallback crop of an auto-mode call.
C1_Witness ==
    /\ pc = "find_crop_bbox"
    /\ ~ret.used_fallback
    /\ args.edge_inset_px > 0
    /\ args.outer_margin_mode = "auto"
    /\ ret.bbox # <<0, 0, image.width, image.height>>
    /\ resolve_outer_clamp_px(image, args)[2] > 0

\* C11: if no pixel has a grayscale value >= crop_threshold, find_crop_bbox
\* returns the full-image box with used_fallback = True and a non-null
\* note; in every result used_fallback = True implies the full-image box
\* and a non-null note, and used_fallback = False implies note = None.
FullBox(im) == <<0, 0, im.width, im.height>>

NoBrightPixel(im, crop_threshold) ==
    \A x \in 0 .. im.width - 1, y \in 0 .. im.height - 1 : im.px[x][y] < crop_threshold

C11_FallbackIsFullImageWithNote ==
    pc = "find_crop_bbox" =>
        /\ NoBrightPixel(image, args.crop_threshold) => ret.used_fallback
        /\ ret.used_fallback => (ret.bbox = FullBox(image) /\ ret.note # None)
        /\ ~ret.used_fallback => ret.note = None

\* An all-dark image (uniform intensity 10, threshold 180) fell back.
C11_Witness ==
    /\ pc = "find_crop_bbox"
    /\ image.width > 1
    /\ \A x \in 0 .. image.width - 1, y \in 0 .. image.height - 1 : image.px[x][y] = 10
    /\ args.crop_threshold = 180
    /\ ret = [bbox |-> FullBox(image), used_fallback |-> TRUE,
              note |-> "No bright page region found; used full image."]

\* C13: find_crop_bbox for a left page with outer_margin_frac = f and no
\* other outer-margin argument, when it returns without fallback, yields a
\* box whose left edge is >= int(width * f).
OnlyMarginFracPassed(a) ==
    \E f \in FixedMarginFracs :
        \A k \in DOMAIN CropDefaults :
            a[k] = [CropDefaults EXCEPT !.outer_margin_frac = f][k]

C13_MarginFracAloneClampsLeft ==
    (/\ pc = "find_crop_bbox"
     /\ args.is_left_page
     /\ OnlyMarginFracPassed(args)
     /\ ~ret.used_fallback)
        => ret.bbox[1] >= IntMul(image.width, args.outer_margin_frac)

\* ------------------------------- specification: the edge inset, compared
\* One image cropped with edge_inset_px = 0 and with edge_inset_px = 5.
MaxInsetW == 8
MaxInsetH == 8
\* edge_inset_px of test_crop_bbox_edge_inset_shrinks_bbox
TestEdgeInsetPx == 5

\* A dark page (10) with one bright block (245) at columns [x0, x1) and
\* rows [y0, y1), as the synthetic scans of the tests are drawn.
RectImage(w, h, x0, y0, x1, y1) ==
    [width |-> w, height |-> h,
     px |-> [x \in 0 .. w - 1 |-> [y \in 0 .. h - 1 |->
                IF x0 <= x /\ x < x1 /\ y0 <= y /\ y < y1 THEN 245 ELSE 10]]]

SomeRectImage(im, max_w, max_h) ==
    \E w \in 1 .. max_w, h \in 1 .. max_h :
        \E x0 \in 0 .. w - 1, y0 \in 0 .. h - 1 :
            \E x1 \in x0 .. w, y1 \in y0 .. h :
                im = RectImage(w, h, x0, y0, x1, y1)

InsetPairArgs ==
    { [crop_threshold |-> 180, pad_px |-> p, min_area_frac |-> Quarter,
       edge_inset_px |-> 0, is_left_page |-> s, outer |-> o] :
        p \in PadChoices, s \in BOOLEAN,
        o \in { CropDefaults,
                [CropDefaults EXCEPT !.outer_margin_mode = "fixed",
                                     !.outer_margin_frac = Quarter] } }

InitInset ==
    /\ pc = "start"
    /\ SomeRectImage(image, MaxInsetW, MaxInsetH)
    /\ args = NoArgs
    /\ ret = NoRet
    /\ OcrIdle
    /\ RunIdle

CallFindCropBboxTwice ==
    /\ pc = "start"
    /\ \E c \in InsetPairArgs :
         /\ args' = CropCall(c)
         /\ ret' = [no_inset |-> find_crop_bbox(image, CropCall(c)),
                    inset |-> find_crop_bbox(image,
                                  [CropCall(c) EXCEPT !.edge_inset_px = TestEdgeInsetPx])]
    /\ pc' = "find_crop_bbox_twice"
    /\ UNCHANGED <<run_vars, image, ocr_vars>>

NextInset == CallFindCropBboxTwice

SpecInset == InitInset /\ [][NextInset]_vars

StrictlyInside(inner, outer) ==
    /\ inner[1] > outer[1] /\ inner[2] > outer[2]
    /\ inner[3] < outer[3] /\ inner[4] < outer[4]

MaxSplitW == 6
MaxSplitH == 2
MaxTrim == 3

\* The left half's right edge with the trim left out.
trimmed_left_right_untrimmed(safe_gutter_x, trim) == Max2(1, safe_gutter_x)

\* left_right = max(1, safe_gutter_x - trim)
trimmed_left_right(safe_gutter_x, trim) == Max2(1, safe_gutter_x - trim)

\* <<left_right, right_left>>: the columns at which the two halves are cut.
split_cut(width, gutter_x, gutter_trim_px) ==
    LET safe_gutter_x == Max2(1, Min2(width - 1, gutter_x))
        trim == Max2(0, gutter_trim_px)
        lr0 == trimmed_left_right(safe_gutter_x, trim)
        rl0 == Min2(width - 1, safe_gutter_x + trim)
        lr1 == IF lr0 <= 0 THEN 1 ELSE lr0
        rl1 == IF rl0 >= width THEN width - 1 ELSE rl0
    IN  IF rl1 < lr1
        THEN LET mid == safe_gutter_x
                 lr2 == Max2(1, Min2(width - 1, mid))
                 rl2 == Max2(lr2 + 1, Min2(width - 1, mid + 1))
             IN  <<lr2, IF rl2 > width - 1 THEN width - 1 ELSE rl2>>
        ELSE <<lr1, rl1>>

\* image.crop((x0, 0, x1, height)): the columns [x0, x1) of the image.
CropColumns(x0, x1, height) ==
    [x0 |-> x0, x1 |-> x1, width |-> x1 - x0, height |-> height]

split_spread_image(im, gutter_x, gutter_trim_px) ==
    IF im.width < 2
    THEN [raised |-> "UserError"]
    ELSE LET cut == split_cut(im.width, gutter_x, gutter_trim_px)
         IN  [raised |-> None,
              left |-> CropColumns(0, cut[1], im.height),
              right |-> CropColumns(cut[2], im.width, im.height)]

Blank(w, h) == [width |-> w, height |-> h, px |-> <<>>]

InitSplit ==
    /\ pc = "start"
    /\ image \in { Blank(w, h) : w \in 1 .. MaxSplitW, h \in 1 .. MaxSplitH }
    /\ args = NoArgs
    /\ ret = NoRet
    /\ OcrIdle
    /\ RunIdle

CallSplitSpreadImage ==
    /\ pc = "start"
    /\ \E g \in -1 .. image.width + 1, t \in 0 .. MaxTrim :
         /\ args' = [gutter_x |-> g, gutter_trim_px |-> t]
         /\ ret' = split_spread_image(image, g, t)
    /\ pc' = "split_spread_image"
    /\ UNCHANGED <<run_vars, image, ocr_vars>>

NextSplit == CallSplitSpreadImage

SpecSplit == InitSplit /\ [][NextSplit]_vars

\* ------------------------------------------------ symmetry reconciler (4.5)
MaxSymW == 5

bbox_width(bbox) == bbox[3] - bbox[1]

\* No strategy taken for the pass-through one.
is_independent_never(strategy) == FALSE

\* if strategy == "independent"
is_independent(strategy) == strategy = "independent"

\* No candidate pair taken for degenerate.
degenerate_never(candidate_left, candidate_right) == FALSE

\* A candidate box of zero or negative width.
degenerate(candidate_left, candidate_right) ==
    candidate_left[3] <= candidate_left[1] \/ candidate_right[3] <= candidate_right[1]

apply_split_symmetry_strategy(a) ==
    IF is_independent(a.strategy)
    THEN [left_bbox |-> a.left_bbox, right_bbox |-> a.right_bbox, note |-> None]
    ELSE
    LET left_l == a.left_bbox[1]
        left_r == a.left_bbox[3]
        right_l == a.right_bbox[1]
        right_r == a.right_bbox[3]
        left_min_left == Max2(0, a.left_outer_clamp_px)
        left_max_right == a.left_image_width
        right_min_left == 0
        right_max_right == Max2(1, a.right_image_width - Max2(0, a.right_outer_clamp_px))
    IN
    IF a.strategy \notin {"match_max_width", "mirror_from_gutter"}
    THEN [left_bbox |-> a.left_bbox, right_bbox |-> a.right_bbox,
          note |-> "Unknown symmetry strategy; used independent."]
    ELSE
    LET left_width == left_r - left_l
        right_width == right_r - right_l
        max_width == Max2(left_width, right_width)
        right_global_left == a.right_offset_x + right_l
        left_gap == Max2(0, a.gutter_x - left_r)
        right_gap == Max2(0, right_global_left - a.gutter_x)
        target_gap == Max2(left_gap, right_gap)
        mirrored_right_local_left == (a.gutter_x + target_gap) - a.right_offset_x
        \* the inner edges the strategy asks for
        left_r1 ==
            IF a.strategy = "match_max_width"
            THEN (IF left_width < max_width
                  THEN Min2(left_max_right, left_l + max_width) ELSE left_r)
            ELSE Min2(left_max_right, Max2(left_l + 1, a.gutter_x - target_gap))
        right_l1 ==
            IF a.strategy = "match_max_width"
            THEN (IF right_width < max_width
                  THEN Max2(right_min_left, right_r - max_width) ELSE right_l)
            ELSE Max2(right_min_left, Min2(right_r - 1, mirrored_right_local_left))
        \* the bounds recomputed against clamp and image width
        left_l2 == Max2(left_l, left_min_left)
        right_r2 == Min2(right_r, right_max_right)
        left_r2 == Min2(left_r1, left_max_right)
        right_l2 == Max2(right_l1, right_min_left)
        candidate_left == <<left_l2, a.left_bbox[2], left_r2, a.left_bbox[4]>>
        candidate_right == <<right_l2, a.right_bbox[2], right_r2, a.right_bbox[4]>>
    IN
    IF degenerate(candidate_left, candidate_right)
    THEN [left_bbox |-> a.left_bbox, right_bbox |-> a.right_bbox,
          note |-> IF a.strategy = "mirror_from_gutter"
                   THEN "Mirror symmetry could not be satisfied safely; used independent."
                   ELSE "Invalid symmetry bounds for strategy; used independent."]
    ELSE [left_bbox |-> candidate_left, right_bbox |-> candidate_right, note |-> None]

Strategies == {"independent", "match_max_width", "mirror_from_gutter"}
\* and a name outside SYMMETRY_STRATEGIES, as a direct caller can pass
CallableStrategies == Strategies \cup {"no_such_strategy"}
TrimChoices == {0, 1}
ClampChoices == {0, 1}
LeftTopBottom == <<0, 2>>
RightTopBottom == <<1, 2>>

\* The boxes with 0 <= left < right <= width and the given top and bottom.
BoxesIn(width, tb) ==
    { b \in { <<l, tb[1], r, tb[2]>> : l \in 0 .. width - 1, r \in 1 .. width } :
        b[1] < b[3] }

\* The arguments page_images_in_folder passes for a spread of the given
\* width cut at gutter_x with the given trim (the strategy can also be one a
\* direct caller makes up).
SymmetryArgs(width, gutter_x, trim) ==
    LET cut == split_cut(width, gutter_x, trim)
        left_w == cut[1]
        right_w == width - cut[2]
    IN  { [left_bbox |-> lb, right_bbox |-> rb,
           left_image_width |-> left_w, right_image_width |-> right_w,
           gutter_x |-> gutter_x, right_offset_x |-> width - right_w,
           strategy |-> s, gutter_trim_px |-> trim,
           left_outer_clamp_px |-> lc, right_outer_clamp_px |-> rc] :
            lb \in BoxesIn(left_w, LeftTopBottom),
            rb \in BoxesIn(right_w, RightTopBottom),
            s \in CallableStrategies, lc \in ClampChoices, rc \in ClampChoices }

InitSym ==
    /\ pc = "start"
    /\ image \in { Blank(w, RightTopBottom[2]) : w \in 2 .. MaxSymW }
    /\ args = NoArgs
    /\ ret = NoRet
    /\ OcrIdle
    /\ RunIdle

CallApplySplitSymmetryStrategy ==
    /\ pc = "start"
    /\ \E g \in 1 .. image.width - 1, t \in TrimChoices :
         \E a \in SymmetryArgs(image.width, g, t) :
            /\ args' = a
            /\ ret' = apply_split_symmetry_strategy(a)
    /\ pc' = "apply_split_symmetry_strategy"
    /\ UNCHANGED <<run_vars, image, ocr_vars>>

NextSym == CallApplySplitSymmetryStrategy

SpecSym == InitSym /\ [][NextSym]_vars

\* C2: with strategy match_max_width, for any valid boxes, image widths and
\* clamp amounts, the result is either two boxes of equal width with no
\* note, or the two input boxes unchanged together with a note.
C2_MatchMaxWidthEqualOrReverted ==
    (pc = "apply_split_symmetry_strategy" /\ args.strategy = "match_max_width") =>
        \/ /\ ret.note = None
           /\ bbox_width(ret.left_bbox) = bbox_width(ret.right_bbox)
        \/ /\ ret.note # None
           /\ ret.left_bbox = args.left_bbox
           /\ ret.right_bbox = args.right_bbox

\* C3: with strategy mirror_from_gutter, for any valid boxes, the result is
\* either two boxes whose inner edges are equally far from the gutter
\* (gutter_x - left.right = right_offset_x + right.left - gutter_x) with no
\* note, or the two input boxes unchanged together with a note.
C3_MirrorEqualDistanceOrReverted ==
    (pc = "apply_split_symmetry_strategy" /\ args.strategy = "mirror_from_gutter") =>
        \/ /\ ret.note = None
           /\ args.gutter_x - ret.left_bbox[3]
                = args.right_offset_x + ret.right_bbox[1] - args.gutter_x
        \/ /\ ret.note # None
           /\ ret.left_bbox = args.left_bbox
           /\ ret.right_bbox = args.right_bbox

InPage(bbox, image_width) == 0 <= bbox[1] /\ bbox[3] <= image_width

\* C14: for valid input boxes and any strategy, _apply_split_symmetry_strategy
\* never returns a box of zero or negative width: either both returned boxes
\* have positive width and lie within their page image (note = None), or the
\* returned boxes are exactly the input boxes and the note is non-null; the
\* top and bottom of both boxes are never changed.
C14_SymmetryNeverDegenerate ==
    pc = "apply_split_symmetry_strategy" =>
        /\ ret.left_bbox[2] = args.left_bbox[2] /\ ret.left_bbox[4] = args.left_bbox[4]
        /\ ret.right_bbox[2] = args.right_bbox[2] /\ ret.right_bbox[4] = args.right_bbox[4]
        /\ bbox_width(ret.left_bbox) > 0
        /\ bbox_width(ret.right_bbox) > 0
        /\ \/ /\ ret.note = None
              /\ InPage(ret.left_bbox, args.left_image_width)
              /\ InPage(ret.right_bbox, args.right_image_width)
           \/ /\ ret.note # None
              /\ ret.left_bbox = args.left_bbox
              /\ ret.right_bbox = args.right_bbox

\* The outer clamp left no room for the left box: the call fell back to
\* the input boxes with a note.
C14_Witness ==
    /\ pc = "apply_split_symmetry_strategy"
    /\ args.strategy = "match_max_width"
    /\ args.left_outer_clamp_px >= args.left_bbox[3]
    /\ ret.note = "Invalid symmetry bounds for strategy; used independent."
    /\ ret.left_bbox = args.left_bbox
    /\ ret.right_bbox = args.right_bbox

\* C20: with strategy independent the result is exactly the two input boxes
\* with note = None, whatever the image widths, gutter, trim and clamps.
C20_IndependentPassThrough ==
    (pc = "apply_split_symmetry_strategy" /\ args.strategy = "independent") =>
        ret = [left_bbox |-> args.left_bbox, right_bbox |-> args.right_bbox,
               note |-> None]

\* An independent call whose boxes the other strategies would have changed.
C20_Witness ==
    /\ pc = "apply_split_symmetry_strategy"
    /\ args.strategy = "independent"
    /\ args.left_outer_clamp_px > args.left_bbox[1]
    /\ bbox_width(args.left_bbox) # bbox_width(args.right_bbox)
    /\ args.gutter_trim_px > 0
    /\ ret.left_bbox = args.left_bbox
    /\ ret.right_bbox = args.right_bbox
    /\ ret.note = None

\* C6 as stated: for every image of width w >= 2 and height h > 0 and every
\* gutter_x, split_spread_image returns two images of height h whose widths
\* sum to w when gutter_trim_px = 0 and to w - 2 * gutter_trim_px otherwise.
C6_SplitWidthsSum ==
    (pc = "split_spread_image" /\ image.width >= 2) =>
        /\ ret.left.height = image.height
        /\ ret.right.height = image.height
        /\ ret.left.width + ret.right.width =
              IF args.gutter_trim_px = 0
              THEN image.width
              ELSE image.width - 2 * args.gutter_trim_px

\* C6 as amended: the two halves have height h and are at least 1 px wide;
\* their widths sum to w when gutter_trim_px = 0, to w - 2 * gutter_trim_px
\* when both trimmed edges stay inside the image (g - trim >= 1 and
\* g + trim <= w - 1, g being gutter_x clamped into [1, w - 1]), and
\* otherwise to more than w - 2 * gutter_trim_px and at most w.
C6_SplitWidthsSumUnlessClamped ==
    (pc = "split_spread_image" /\ image.width >= 2) =>
        LET w == image.width
            t == args.gutter_trim_px
            g == Max2(1, Min2(w - 1, args.gutter_x))
            total == ret.left.width + ret.right.width
        IN  /\ ret.raised = None
            /\ ret.left.height = image.height
            /\ ret.right.height = image.height
            /\ ret.left.width >= 1
            /\ ret.right.width >= 1
            /\ t = 0 => total = w
            /\ (t > 0 /\ g - t >= 1 /\ g + t <= w - 1) => total = w - 2 * t
            /\ (t > 0 /\ ~(g - t >= 1 /\ g + t <= w - 1)) =>
                  (total > w - 2 * t /\ total <= w)

\* A trimmed split whose two cuts stay inside the image.
C6_Witness ==
    /\ pc = "split_spread_image"
    /\ image.width >= 2
    /\ args.gutter_trim_px > 0
    /\ ret.left.width + ret.right.width = image.width - 2 * args.gutter_trim_px

\* --------------------------------------------------- gutter detector (4.1)
MaxGutterW == 4
MaxGutterH == 2

\* The sum of the pixels of column x at rows y + i * y_step, i in lo .. hi,
\* added up by halves.
RECURSIVE sum_rows(_, _, _, _, _, _)
sum_rows(im, x, y, y_step, lo, hi) ==
    IF lo > hi THEN 0
    ELSE IF lo = hi THEN im.px[x][y + lo * y_step]
    ELSE LET mid == (lo + hi) \div 2
         IN  sum_rows(im, x, y, y_step, lo, mid) + sum_rows(im, x, y, y_step, mid + 1, hi)

\* score of column x: the sum of its pixels at rows y, y + y_step, ... below
\* the image height
column_score(im, x, y, y_step) ==
    sum_rows(im, x, y, y_step, 0, (im.height - 1 - y) \div y_step)

\* A later column of the same score takes over.
better_or_equal(score, best_score) == best_score = <<>> \/ score <= best_score[1]

\* if best_score is None or score < best_score
better(score, best_score) == best_score = <<>> \/ score < best_score[1]

\* The scan over range(x, end_x + 1, x_step); best_score is <<>> for None.
RECURSIVE gutter_scan(_, _, _, _, _, _, _)
gutter_scan(im, x, end_x, x_step, y_step, best_x, best_score) ==
    IF x > end_x THEN best_x
    ELSE LET score == column_score(im, x, 0, y_step)
         IN  IF better(score, best_score)
             THEN gutter_scan(im, x + x_step, end_x, x_step, y_step, x, <<score>>)
             ELSE gutter_scan(im, x + x_step, end_x, x_step, y_step, best_x, best_score)

\* The band test with a non-strict lower edge.
in_band_inclusive(best_x, min_x, max_x) == min_x <= best_x /\ best_x < max_x

\* min_x < best_x < max_x
in_band(best_x, min_x, max_x) == min_x < best_x /\ best_x < max_x

gutter_window(width, gutter_search_frac) ==
    LET center_x == width \div 2
        half_window == Max2(1, (gutter_search_frac[1] * width) \div (gutter_search_frac[2] * 2))
    IN  <<Max2(0, center_x - half_window), Min2(width - 1, center_x + half_window)>>

detect_gutter_x(im, gutter_search_frac, x_step, y_step) ==
    LET width == im.width
        center_x == width \div 2
        window == gutter_window(width, gutter_search_frac)
        candidate == gutter_scan(im, window[1], window[2], x_step, y_step, center_x, <<>>)
        min_x == IntMul(width, <<2, 10>>)
        max_x == IntMul(width, <<8, 10>>)
        fallback_to_center == ~in_band(candidate, min_x, max_x)
        best_x == IF fallback_to_center THEN center_x ELSE candidate
    IN  [gutter_x |-> IF width >= 2 THEN Max2(1, Min2(width - 1, best_x)) ELSE 0,
         fell_back |-> fallback_to_center]

\* The synthetic spread of the tests: a 400x200 canvas of level 20, bright
\* pages at columns 20..175 and 225..380 (rows 15..185), and a dark band at
\* columns 195..205 over every row, drawn last. Its conversion RGB -> L
\* gives back the level of each gray pixel.
SpreadW == 400
SpreadH == 200
SpreadBandCentre == 200
CenterTolerance == 8

in_rectangle(x, y, x0, y0, x1, y1) == x0 <= x /\ x <= x1 /\ y0 <= y /\ y <= y1

make_synthetic_spread ==
    [width |-> SpreadW, height |-> SpreadH,
     px |-> [x \in 0 .. SpreadW - 1 |-> [y \in 0 .. SpreadH - 1 |->
                IF in_rectangle(x, y, 195, 0, 205, 199) THEN 5
                ELSE IF in_rectangle(x, y, 20, 15, 175, 185)
                        \/ in_rectangle(x, y, 225, 15, 380, 185) THEN 245
                ELSE 20]]]

\* gutter_search_frac=0.35 of the test
TestSearchFrac == <<35, 100>>
TestGutterArgs == [gutter_search_frac |-> TestSearchFrac, x_step |-> 2, y_step |-> 2]

SearchFracs == {Quarter, Half, Whole, TestSearchFrac}
StepChoices == {1, 2}

InitGutter ==
    /\ pc = "start"
    /\ \/ SomeImage(image, MaxGutterW, MaxGutterH)
       \/ image = make_synthetic_spread
    /\ args = NoArgs
    /\ ret = NoRet
    /\ OcrIdle
    /\ RunIdle

CallDetectGutterX ==
    /\ pc = "start"
    /\ \E f \in SearchFracs, xs \in StepChoices, ys \in StepChoices :
         /\ args' = [gutter_search_frac |-> f, x_step |-> xs, y_step |-> ys]
         \* the synthetic spread is scanned the way its test scans it
         /\ image = make_synthetic_spread => args' = TestGutterArgs
         /\ ret' = detect_gutter_x(image, f, xs, ys)
    /\ pc' = "detect_gutter_x"
    /\ UNCHANGED <<run_vars, image, ocr_vars>>

NextGutter == CallDetectGutterX

SpecGutter == InitGutter /\ [][NextGutter]_vars

\* The sampled columns of the search window and the darkest of them (the
\* leftmost one on ties), stated on the window rather than as a scan.
SampledColumns(im, a) ==
    LET window == gutter_window(im.width, a.gutter_search_frac)
    IN  { x \in window[1] .. window[2] : (x - window[1]) % a.x_step = 0 }

SampledSum(im, x, y_step) ==
    LET RECURSIVE Sum(_, _)
        \* the sampled rows of y0 .. y1
        Sum(y0, y1) ==
            IF y0 > y1 THEN 0
            ELSE IF y0 = y1 THEN (IF y0 % y_step = 0 THEN im.px[x][y0] ELSE 0)
            ELSE LET m == (y0 + y1) \div 2 IN Sum(y0, m) + Sum(m + 1, y1)
    IN  Sum(0, im.height - 1)

DarkestSampledColumn(im, a) ==
    LET cols == SampledColumns(im, a)
        sum == [x \in cols |-> SampledSum(im, x, a.y_step)]
    IN  CHOOSE x \in cols :
            \A x2 \in cols : sum[x] < sum[x2] \/ (sum[x] = sum[x2] /\ x <= x2)

\* C7: detect_gutter_x returns gutter_x in [1, width - 1] for every image of
\* width >= 2 (and 0 when width < 2); fell_back is true exactly when the
\* darkest candidate column x does not satisfy
\* int(0.2 * width) < x < int(0.8 * width), and then the returned gutter is
\* the center column width // 2 clamped into [1, width - 1].
C7_GutterInRangeAndFallback ==
    pc = "detect_gutter_x" =>
        LET w == image.width
            x == DarkestSampledColumn(image, args)
        IN  /\ w >= 2 => (1 <= ret.gutter_x /\ ret.gutter_x <= w - 1)
            /\ w < 2 => ret.gutter_x = 0
            /\ ret.fell_back <=> ~(IntMul(w, <<2, 10>>) < x /\ x < IntMul(w, <<8, 10>>))
            /\ (ret.fell_back /\ w >= 2) => ret.gutter_x = Max2(1, Min2(w - 1, w \div 2))

\* C19: when the darkest sampled column of the search window (the leftmost
\* one on ties) lies strictly inside the 20%-80% band, detect_gutter_x
\* returns that column with fell_back = False; on the synthetic 400x200
\* spread with search_frac 0.35 and steps 2 the gutter is within 8 px of 200.
C19_DarkestInBandIsReturned ==
    pc = "detect_gutter_x" =>
        LET w == image.width
            x == DarkestSampledColumn(image, args)
        IN  /\ (IntMul(w, <<2, 10>>) < x /\ x < IntMul(w, <<8, 10>>)) =>
                   (ret.gutter_x = x /\ ~ret.fell_back)
            /\ (image = make_synthetic_spread /\ args = TestGutterArgs) =>
                   /\ ~ret.fell_back
                   /\ ret.gutter_x - SpreadBandCentre <= CenterTolerance
                   /\ SpreadBandCentre - ret.gutter_x <= CenterTolerance

\* The test's call: the sampled columns 196, 198, ..., 204 of the dark band
\* tie and the leftmost of them is returned.
C19_Witness ==
    /\ pc = "detect_gutter_x"
    /\ image = make_synthetic_spread
    /\ args = TestGutterArgs
    /\ ret = [gutter_x |-> 196, fell_back |-> FALSE]

\* The darkest column lies off centre and outside the band: fallback.
C7_Witness ==
    /\ pc = "detect_gutter_x"
    /\ image.width >= 3
    /\ ret.fell_back
    /\ DarkestSampledColumn(image, args) # image.width \div 2

\* ------------------------------------------------ Roman numerals (4.6)
\* A string is the sequence of its characters.
MaxRomanLen == 3
MaxRomanValue == 5000
\* M{0,4} of ROMAN_CANONICAL_REGEX
MaxLeadingM == 4

RomanLetters == {"I", "V", "X", "L", "C", "D", "M"}

\* table = {"I": 1, "V": 5, ...}
roman_table(c) ==
    CASE c = "I" -> 1 [] c = "V" -> 5 [] c = "X" -> 10 [] c = "L" -> 50
      [] c = "C" -> 100 [] c = "D" -> 500 [] c = "M" -> 1000

\* str.upper on the characters of the modelled alphabet
upper_char(c) ==
    CASE c = "i" -> "I" [] c = "v" -> "V" [] c = "x" -> "X" [] c = "l" -> "L"
      [] c = "c" -> "C" [] c = "d" -> "D" [] c = "m" -> "M" [] c = "a" -> "A"
      [] OTHER -> c

upper(s) == [i \in 1 .. Len(s) |-> upper_char(s[i])]

is_space(c) == c \in {" ", "\n", "\t"}

\* str.strip
RECURSIVE strip(_)
strip(s) ==
    IF s = <<>> THEN s
    ELSE IF is_space(s[1]) THEN strip(Tail(s))
    ELSE IF is_space(s[Len(s)]) THEN strip(SubSeq(s, 1, Len(s) - 1))
    ELSE s

RECURSIVE Rep(_, _)
Rep(c, k) == IF k = 0 THEN <<>> ELSE <<c>> \o Rep(c, k - 1)

\* A digit group that lets its unit letter repeat four times.
RegexGroupLoose(one, five, ten) ==
    { <<one, ten>>, <<one, five>> }
    \cup { Rep(one, k) : k \in 0 .. 4 } \cup { <<five>> \o Rep(one, k) : k \in 0 .. 4 }

\* One digit group of the regex, e.g. (CM|CD|D?C{0,3}): its alternatives.
RegexGroup(one, five, ten) ==
    { <<one, ten>>, <<one, five>> }
    \cup { Rep(one, k) : k \in 0 .. 3 } \cup { <<five>> \o Rep(one, k) : k \in 0 .. 3 }

\* ^M{0,4}(CM|CD|D?C{0,3})(XC|XL|L?X{0,3})(IX|IV|V?I{0,3})$
ROMAN_CANONICAL_REGEX ==
    << { Rep("M", k) : k \in 0 .. MaxLeadingM },
       RegexGroup("C", "D", "M"), RegexGroup("X", "L", "C"), RegexGroup("I", "V", "X") >>

\* Whether s matches the regex from its group k on, to the end of s.
RECURSIVE fullmatch(_, _)
fullmatch(s, k) ==
    IF k > Len(ROMAN_CANONICAL_REGEX) THEN s = <<>>
    ELSE \E o \in ROMAN_CANONICAL_REGEX[k] :
            /\ Len(o) <= Len(s)
            /\ SubSeq(s, 1, Len(o)) = o
            /\ fullmatch(SubSeq(s, Len(o) + 1, Len(s)), k + 1)

\* The summing loop from index idx (1-based) on.
RECURSIVE roman_total(_, _)
roman_total(roman, idx) ==
    IF idx > Len(roman) THEN 0
    ELSE LET current == roman_table(roman[idx])
         IN  IF idx + 1 <= Len(roman) /\ current < roman_table(roman[idx + 1])
             THEN (roman_table(roman[idx + 1]) - current) + roman_total(roman, idx + 2)
             ELSE current + roman_total(roman, idx + 1)

\* <<n>>, or <<>> for None
parse_roman_numeral(value) ==
    LET roman == upper(strip(value))
    IN  IF roman = <<>> THEN <<>>
        ELSE IF ~fullmatch(roman, 1) THEN <<>>
        ELSE <<roman_total(roman, 1)>>

\* The canonical subtractive-notation numeral of n >= 1, written greedily
\* from the largest symbol down; the thousands are as many M as needed.
RomanSymbols ==
    << <<1000, <<"M">> >>, <<900, <<"C", "M">> >>, <<500, <<"D">> >>,
       <<400, <<"C", "D">> >>, <<100, <<"C">> >>, <<90, <<"X", "C">> >>,
       <<50, <<"L">> >>, <<40, <<"X", "L">> >>, <<10, <<"X">> >>,
       <<9, <<"I", "X">> >>, <<5, <<"V">> >>, <<4, <<"I", "V">> >>, <<1, <<"I">> >> >>

RECURSIVE ToRoman(_, _)
ToRoman(n, k) ==
    IF n = 0 THEN <<>>
    ELSE IF n >= RomanSymbols[k][1]
         THEN RomanSymbols[k][2] \o ToRoman(n - RomanSymbols[k][1], k)
         ELSE ToRoman(n, k + 1)

CanonicalNumeral == [n \in 1 .. MaxRomanValue |-> ToRoman(n, 1)]

RECURSIVE SeqsUpTo(_, _)
SeqsUpTo(S, n) ==
    IF n = 0 THEN {<<>>}
    ELSE LET shorter == SeqsUpTo(S, n - 1)
         IN  shorter \cup { Append(s, c) : s \in shorter, c \in S }

\* OCR output handed to the parser: every letter string up to MaxRomanLen,
\* the numeral of every value up to MaxRomanValue, and strings with blanks,
\* lower case, a foreign letter or a non-canonical form.
RomanInputs ==
    SeqsUpTo(RomanLetters, MaxRomanLen)
    \cup { CanonicalNumeral[n] : n \in 1 .. MaxRomanValue }
    \cup { <<"I", "I", "I", "I">>, <<" ", "i", "v", "\n">>, <<"x", "l", "i", "i">>,
           <<"I", "A">>, <<" ">>, <<"I", " ", "V">>, <<"V", "I", "I", "I", "I">>,
           <<"M", "C", "M", "X", "C", "I", "X">> }

InitRoman ==
    /\ pc = "start"
    /\ image = NoImage
    /\ args \in { [value |-> s] : s \in RomanInputs }
    /\ ret = NoRet
    /\ OcrIdle
    /\ RunIdle

CallParseRomanNumeral ==
    /\ pc = "start"
    /\ ret' = [value |-> parse_roman_numeral(args.value)]
    /\ pc' = "parse_roman_numeral"
    /\ UNCHANGED <<run_vars, image, args, ocr_vars>>

NextRoman == CallParseRomanNumeral

SpecRoman == InitRoman /\ [][NextRoman]_vars

\* The canonical numerals of 1 .. MaxRomanValue, and of the values whose
\* thousands need at most MaxLeadingM letters M.
TopFourM == Min2(MaxRomanValue, MaxLeadingM * 1000 + 999)
CanonicalAll == { CanonicalNumeral[n] : n \in 1 .. MaxRomanValue }
CanonicalUpToFourM == { CanonicalNumeral[n] : n \in 1 .. TopFourM }

\* C8 as stated: parse_roman_numeral returns n for exactly the strings
\* that, trimmed and upper-cased, are the canonical numeral of an integer
\* n >= 1, and None for every other string (the empty string and "IIII"
\* included); "IV" -> 4, "MCMXCIX" -> 1999; it never returns 0.
C8_RomanExactlyCanonical ==
    pc = "parse_roman_numeral" =>
        LET roman == upper(strip(args.value))
        IN  /\ ret.value # <<>> =>
                  /\ ret.value[1] \in 1 .. MaxRomanValue
                  /\ CanonicalNumeral[ret.value[1]] = roman
            /\ ret.value = <<>> => roman \notin CanonicalAll

\* C8 as amended: the same for the integers 1 <= n <= 4999, whose
\* thousands are at most four M; the numeral of a larger value (five or
\* more leading M) gives None like every other string.
C8_RomanCanonicalUpToFourM ==
    pc = "parse_roman_numeral" =>
        LET roman == upper(strip(args.value))
        IN  /\ ret.value # <<>> =>
                  /\ ret.value[1] \in 1 .. TopFourM
                  /\ CanonicalNumeral[ret.value[1]] = roman
            /\ ret.value = <<>> => roman \notin CanonicalUpToFourM
            /\ args.value = <<"I", "V">> => ret.value = <<4>>
            /\ args.value = <<"M", "C", "M", "X", "C", "I", "X">> => ret.value = <<1999>>
            /\ args.value = <<"I", "I", "I", "I">> => ret.value = <<>>
            /\ args.value = <<>> => ret.value = <<>>

\* A trimmed, lower-case numeral was parsed.
C8_Witness ==
    /\ pc = "parse_roman_numeral"
    /\ args.value = <<" ", "i", "v", "\n">>
    /\ ret.value = <<4>>

\* ------------------------------------------ printed page number (4.6)
\* Raw OCR text is the sequence of its characters.
Digits == <<"0", "1", "2", "3", "4", "5", "6", "7", "8", "9">>
is_digit(c) == \E d \in DOMAIN Digits : Digits[d] = c
digit_value(c) == (CHOOSE d \in DOMAIN Digits : Digits[d] = c) - 1

\* int() of a string of digits
RECURSIVE int_of(_)
int_of(s) ==
    IF s = <<>> THEN 0
    ELSE 10 * int_of(SubSeq(s, 1, Len(s) - 1)) + digit_value(s[Len(s)])

\* str() of an integer n >= 0
RECURSIVE str_of(_)
str_of(n) ==
    IF n < 10 THEN <<Digits[n + 1]>>
    ELSE Append(str_of(n \div 10), Digits[(n % 10) + 1])

\* \d{1,4} of PAGE_NUMBER_REGEX
MaxTokenDigits == 4

\* The greedy match of \d{1,k} at the head of s.
RECURSIVE digit_run(_, _)
digit_run(s, k) ==
    IF k = 0 \/ s = <<>> THEN <<>>
    ELSE IF ~is_digit(s[1]) THEN <<>>
    ELSE <<s[1]>> \o digit_run(Tail(s), k - 1)

\* PAGE_NUMBER_REGEX.search(raw_text): the leftmost match, <<>> for no match
RECURSIVE regex_search(_)
regex_search(raw_text) ==
    IF raw_text = <<>> THEN <<>>
    ELSE IF is_digit(raw_text[1]) THEN digit_run(raw_text, MaxTokenDigits)
    ELSE regex_search(Tail(raw_text))

\* <<n>>, or <<>> for None
extract_candidate(raw_text) ==
    LET match == regex_search(raw_text)
    IN  IF match = <<>> THEN <<>> ELSE <<int_of(match)>>

\* default of cfg["roman_whitelist"]
RomanWhitelist ==
    {"I", "V", "X", "L", "C", "D", "M", "i", "v", "x", "l", "c", "d", "m"}

extract_roman_letters(raw_text, whitelist) ==
    SelectSeq(raw_text, LAMBDA char : char \in whitelist)

\* 1 <= candidate <= max_page
in_range(candidate, max_page) == 1 <= candidate /\ candidate <= max_page

\* A region name "<anchor>_<position>" is the pair <<anchor, position>>.
RECURSIVE position_loop(_, _)
position_loop(anchor, positions) ==
    IF positions = <<>> THEN <<>>
    ELSE << <<anchor, Head(positions)>> >> \o position_loop(anchor, Tail(positions))

RECURSIVE anchor_loop(_, _)
anchor_loop(anchors, positions) ==
    IF anchors = <<>> THEN <<>>
    ELSE position_loop(Head(anchors), positions) \o anchor_loop(Tail(anchors), positions)

\* The keys build_page_num_regions reads with cfg[...], in reading order;
\* cfg["positions"] is evaluated as the default of cfg.get("allow_positions").
RegionKeys ==
    <<"anchors", "positions", "strip_frac", "corner_h_frac", "corner_w_frac",
      "center_w_frac">>

\* The keys extract_printed_page_number reads with cfg[...] once it has an engine.
OcrKeys == <<"psm_candidates", "max_page", "prep_scale", "bin_threshold", "invert">>

\* The first key of keys that cfg lacks, "None" if it has them all.
RECURSIVE missing_key(_, _)
missing_key(cfg, keys) ==
    IF keys = <<>> THEN None
    ELSE IF Head(keys) \notin DOMAIN cfg THEN Head(keys)
    ELSE missing_key(cfg, Tail(keys))

\* The regions for the anchors taken last to first.
build_page_num_regions_reversed(cfg) ==
    IF missing_key(cfg, RegionKeys) # None
    THEN [raised |-> "KeyError", key |-> missing_key(cfg, RegionKeys)]
    ELSE LET positions ==
                 IF "allow_positions" \in DOMAIN cfg THEN cfg.allow_positions
                 ELSE cfg.positions
             rev == [i \in 1 .. Len(cfg.anchors) |-> cfg.anchors[Len(cfg.anchors) + 1 - i]]
         IN  [raised |-> None, regions |-> anchor_loop(rev, positions)]

\* The region names in building order (the boxes are not modelled: what the
\* engine reads in a crop is any of its outputs).
build_page_num_regions(cfg) ==
    IF missing_key(cfg, RegionKeys) # None
    THEN [raised |-> "KeyError", key |-> missing_key(cfg, RegionKeys)]
    ELSE LET positions ==
                 IF "allow_positions" \in DOMAIN cfg THEN cfg.allow_positions
                 ELSE cfg.positions
         IN  [raised |-> None, regions |-> anchor_loop(cfg.anchors, positions)]

\* The width of a region without the floor of one pixel.
region_w_unfloored(width, frac) == Min2(width, IntMul(width, frac))

\* corner_w and center_w: min(width, max(1, int(width * frac)))
region_w(width, frac) == Min2(width, Max2(1, IntMul(width, frac)))

\* strip_h = max(1, int(height * strip_frac))
strip_h(height, cfg) == Max2(1, IntMul(height, cfg.strip_frac))

\* region_h = min(height, max(1, int(strip_h * corner_h_frac)))
region_h(height, cfg) ==
    Min2(height, Max2(1, IntMul(strip_h(height, cfg), cfg.corner_h_frac)))

\* max(0, int(cfg.get("strip_y_offset_px", 0)))
strip_y_offset_px(cfg) ==
    Max2(0, IF "strip_y_offset_px" \in DOMAIN cfg THEN cfg.strip_y_offset_px ELSE 0)

\* The box <<x0, y0, x1, y1>> of the region <<anchor, position>>.
region_box(width, height, cfg, name) ==
    LET strip_y0 == IF name[1] = "top"
                    THEN Min2(Max2(0, strip_y_offset_px(cfg)), Max2(0, height - 1))
                    ELSE Max2(0, height - strip_h(height, cfg))
        y0 == strip_y0
        y1a == Min2(height, y0 + region_h(height, cfg))
        y1 == IF y1a <= y0 THEN Min2(height, y0 + 1) ELSE y1a
        corner_w == region_w(width, cfg.corner_w_frac)
        center_w == region_w(width, cfg.center_w_frac)
        center_x0 == Max2(0, (width - center_w) \div 2)
    IN  IF name[2] = "left" THEN <<0, y0, corner_w, y1>>
        ELSE IF name[2] = "right" THEN <<Max2(0, width - corner_w), y0, width, y1>>
        ELSE <<center_x0, y0, Min2(width, center_x0 + center_w), y1>>

\* build_page_num_regions with the boxes: the list of (name, box).
build_page_num_region_boxes(width, height, cfg) ==
    LET built == build_page_num_regions(cfg)
    IN  IF built.raised # None
        THEN built
        ELSE [raised |-> None,
              regions |-> [i \in 1 .. Len(built.regions) |->
                             [name |-> built.regions[i],
                              box |-> region_box(width, height, cfg, built.regions[i])]]]

\* str(cfg.get("parser", "auto")).lower(); the configured values are lower case
parser_mode(cfg) == IF "parser" \in DOMAIN cfg THEN cfg.parser ELSE "auto"

roman_whitelist(cfg) ==
    IF "roman_whitelist" \in DOMAIN cfg THEN cfg.roman_whitelist ELSE RomanWhitelist

\* tesseract_exe if tesseract_exe is not None else which_tesseract()
resolved_tesseract(a) ==
    IF a.tesseract_exe # None THEN a.tesseract_exe ELSE a.which_tesseract

\* The reason of a result without a page number, errors checked first.
failure_reason_errors_first(out_of_range, errors) ==
    IF errors # <<>> THEN "tesseract_failed"
    ELSE IF out_of_range THEN "out_of_range"
    ELSE "no_digits"

\* The reason of a result without a page number.
failure_reason(out_of_range, errors) ==
    IF out_of_range THEN "out_of_range"
    ELSE IF errors # <<>> THEN "tesseract_failed"
    ELSE "no_digits"

\* result as extract_printed_page_number creates it
InitialResult ==
    [printed_page |-> <<>>, printed_page_text |-> <<>>, printed_page_kind |-> None,
     region_used |-> <<>>, psm_used |-> <<>>, raw_by_region |-> <<>>,
     corner |-> None, corner_used |-> None, raw_left |-> <<>>, raw_right |-> <<>>,
     reason |-> None]

\* raw_by_region.get(name, "")
raw_get(raw_by_region, name) ==
    IF name \in DOMAIN raw_by_region THEN raw_by_region[name] ELSE <<>>

\* region_name.endswith("_left") / ("_right")
corner_of(region_name) ==
    IF region_name[2] = "left" THEN "left"
    ELSE IF region_name[2] = "right" THEN "right"
    ELSE None

\* raw_by_region left as it was.
set_raw_by_region_skipped(raw_by_region, region_name, raw) == raw_by_region

\* result["raw_by_region"][region_name] = raw
set_raw_by_region(raw_by_region, region_name, raw) ==
    (region_name :> raw) @@ raw_by_region

\* result after the candidate of an attempt was accepted
accepted_result(res, candidate, text, kind, region_name, psm, raw) ==
    LET by_region == set_raw_by_region(res.raw_by_region, region_name, raw)
    IN  [res EXCEPT !.printed_page = <<candidate>>,
                    !.printed_page_text = text,
                    !.printed_page_kind = kind,
                    !.region_used = region_name,
                    !.psm_used = <<psm>>,
                    !.corner = corner_of(region_name),
                    !.corner_used = corner_of(region_name),
                    !.raw_by_region = by_region,
                    !.raw_left = raw_get(by_region, <<"top", "left">>),
                    !.raw_right = raw_get(by_region, <<"top", "right">>)]

\* What the engine can print for the digit whitelist and for the Roman one.
ArabicTexts ==
    { <<>>, <<"7">>, <<"0">>, <<"0", "1", "2", "3">>, <<"1", "2", "3", "4", "5">> }
RomanTexts == { <<>>, <<"i", "v">>, <<"I", "I", "I", "I">>, <<"M", "M">> }

\* What subprocess.run does with the engine: it returns with exit status 0
\* and a text on stdout, returns with a non-zero status and nothing on
\* stdout or stderr, or raises (the executable cannot be started).
EngineRuns(texts) ==
    { [raised |-> FALSE, returncode |-> 0, stdout |-> t] : t \in texts }
    \cup { [raised |-> FALSE, returncode |-> 1, stdout |-> <<>>],
           [raised |-> TRUE, returncode |-> 0, stdout |-> <<>>] }

run_failed(run) == run.raised \/ run.returncode # 0

\* the name NamedTemporaryFile(suffix=".png", delete=False) gives the file
TmpPath == "tmp.png"

\* The temporary file is left behind.
finally_keep(on_disk, tmp_path) == on_disk

\* finally: if tmp_path is not None and tmp_path.exists(): tmp_path.unlink()
finally_unlink(on_disk, tmp_path) == on_disk \ {tmp_path}

\* ocr_text_tesseract with the engine behaving as run and the temporary
\* files on disk being on_disk: the text returned, last_error and the files
\* left on disk.
ocr_text_tesseract(run, on_disk) ==
    LET created == on_disk \cup {TmpPath}
        returned ==
            IF run.raised
            THEN [raw |-> <<>>, last_error |-> "tesseract invocation error: OSError"]
            ELSE IF run.returncode # 0
            THEN [raw |-> <<>>, last_error |-> "tesseract failed: exit code 1"]
            ELSE [raw |-> strip(run.stdout), last_error |-> None]
    IN  [raw |-> returned.raw, last_error |-> returned.last_error,
         tmp_files |-> finally_unlink(created, TmpPath), run |-> run]

\* The outcomes of one call of ocr_text_tesseract in the current state.
EngineOutputs(texts) ==
    { ocr_text_tesseract(run, tmp_files) : run \in EngineRuns(texts) }

RegionChoices ==
    { [anchors |-> <<"top">>, positions |-> <<"left", "right">>],
      [anchors |-> <<"bottom", "top">>, positions |-> <<"center">>] }
PsmChoices == { <<7>>, <<8, 7>> }
ParserChoices == {"auto", "arabic", "roman"}
MaxPageChoices == {5000, 1000}

\* The dictionary page_images_in_folder passes.
CurrentCfg(rc, psm, parser, max_page) ==
    [anchors |-> rc.anchors, allow_positions |-> rc.positions,
     positions |-> rc.positions, parser |-> parser,
     roman_whitelist |-> RomanWhitelist,
     strip_frac |-> <<3, 25>>, strip_y_offset_px |-> 0,
     corner_w_frac |-> <<7, 25>>, corner_h_frac |-> <<9, 20>>,
     center_w_frac |-> <<1, 5>>,
     psm_candidates |-> psm, max_page |-> max_page,
     prep_scale |-> 2, bin_threshold |-> 160, invert |-> FALSE]

\* The dictionary test_extract_printed_page_number_no_tesseract passes.
LegacyCfg ==
    [page_num_strip_frac |-> <<3, 25>>, page_num_corner_w_frac |-> <<7, 25>>,
     page_num_corner_h_frac |-> <<9, 20>>, page_num_psm |-> 7,
     page_num_max |-> 5000, page_num_debug |-> FALSE]

DefaultCfg ==
    CurrentCfg([anchors |-> <<"top">>, positions |-> <<"left", "right">>],
               <<7>>, "auto", 5000)

\* The longest extraction (two psm candidates, both passes) is explored
\* with the default max_page only.
Cfgs ==
    ({ CurrentCfg(rc, psm, parser, max_page) :
         rc \in RegionChoices, psm \in PsmChoices,
         parser \in ParserChoices, max_page \in MaxPageChoices }
     \ { CurrentCfg(rc, <<8, 7>>, "auto", 1000) : rc \in RegionChoices })
    \cup {LegacyCfg}

\* No engine at all, an executable passed by the caller, or one found on PATH.
OcrArgs ==
    { [cfg |-> c, tesseract_exe |-> exe, which_tesseract |-> None] :
        c \in Cfgs, exe \in {None, "tesseract"} }
    \cup { [cfg |-> DefaultCfg, tesseract_exe |-> None,
            which_tesseract |-> "/usr/bin/tesseract"] }

InitOcr ==
    /\ pc = "start"
    /\ args \in OcrArgs
    \* with an engine the page's pixels only reach the code as engine output
    /\ IF resolved_tesseract(args) = None
       THEN SomeImage(image, 1, 1)
       ELSE image = Blank(1, 1)
    /\ ret = NoRet
    /\ OcrIdle
    /\ RunIdle

\* Lines 246-283: the result dictionary, the regions, the engine, the settings.
CallExtractPrintedPageNumber ==
    /\ pc = "start"
    /\ LET built == build_page_num_regions(args.cfg)
       IN  IF built.raised # None
           THEN /\ pc' = "raised"
                /\ ret' = built
                /\ UNCHANGED ocr_vars
           ELSE IF resolved_tesseract(args) = None
           THEN /\ result' = [InitialResult EXCEPT !.reason = "no_tesseract"]
                /\ ret' = result'
                /\ regions' = built.regions
                /\ pc' = "done"
                /\ UNCHANGED <<region_idx, psm_idx, last_raw, saw_out_of_range,
                               error_messages, calls, tmp_files>>
           ELSE IF missing_key(args.cfg, OcrKeys) # None
           THEN /\ pc' = "raised"
                /\ ret' = [raised |-> "KeyError", key |-> missing_key(args.cfg, OcrKeys)]
                /\ UNCHANGED ocr_vars
           ELSE /\ result' = InitialResult
                /\ regions' = built.regions
                /\ saw_out_of_range' = FALSE
                /\ error_messages' = <<>>
                /\ pc' = "region_loop"
                /\ UNCHANGED <<ret, region_idx, psm_idx, last_raw, calls, tmp_files>>
    /\ UNCHANGED <<run_vars, image, args>>

\* for region_name, bbox in regions: the next region, or the end of the loop
RegionLoop ==
    /\ pc = "region_loop"
    /\ IF region_idx < Len(regions)
       THEN /\ region_idx' = region_idx + 1
            /\ last_raw' = <<>>
            /\ psm_idx' = 0
            /\ pc' = "psm_loop"
       ELSE /\ pc' = "finish"
            /\ UNCHANGED <<region_idx, last_raw, psm_idx>>
    /\ UNCHANGED <<run_vars, image, args, ret, regions, saw_out_of_range, error_messages,
                   result, calls, tmp_files>>

\* for psm in psm_candidates: the next candidate, or line 360 after the last
PsmLoop ==
    /\ pc = "psm_loop"
    /\ IF psm_idx < Len(args.cfg.psm_candidates)
       THEN /\ psm_idx' = psm_idx + 1
            /\ pc' = "arabic"
            /\ UNCHANGED result
       ELSE /\ result' = [result EXCEPT !.raw_by_region =
                              set_raw_by_region(@, regions[region_idx], last_raw)]
            /\ pc' = "region_loop"
            /\ UNCHANGED psm_idx
    /\ UNCHANGED <<run_vars, image, args, ret, regions, region_idx, last_raw,
                   saw_out_of_range, error_messages, calls, tmp_files>>

\* One OCR attempt of the pass under way (lines 292-323 and 326-358): the
\* engine is invoked with the whitelist of kind and prints out; parsed is
\* <<n>> or <<>> and text the accepted page's text.  calls records the
\* invocation, its output and the value parsed from it.
Attempt(kind, out, parsed, text, next_pc) ==
    LET region_name == regions[region_idx]
        psm == args.cfg.psm_candidates[psm_idx]
    IN  /\ calls' = Append(calls, [region |-> region_name, psm |-> psm, kind |-> kind,
                                   raw |-> out.raw, last_error |-> out.last_error,
                                   parsed |-> parsed, run |-> out.run])
        /\ tmp_files' = out.tmp_files
        /\ last_raw' = out.raw
        /\ error_messages' = IF out.last_error # None
                             THEN Append(error_messages, out.last_error)
                             ELSE error_messages
        /\ IF parsed # <<>> /\ in_range(parsed[1], args.cfg.max_page)
           THEN /\ result' = accepted_result(result, parsed[1], text, kind,
                                             region_name, psm, out.raw)
                /\ ret' = result'
                /\ pc' = "done"
                /\ UNCHANGED saw_out_of_range
           ELSE /\ saw_out_of_range' = (saw_out_of_range \/ parsed # <<>>)
                /\ pc' = next_pc
                /\ UNCHANGED <<result, ret>>

\* if parser_mode in {"auto", "arabic"}: the digits attempt
OcrArabic ==
    /\ pc = "arabic"
    /\ IF parser_mode(args.cfg) \in {"auto", "arabic"}
       THEN \E out \in EngineOutputs(ArabicTexts) :
                LET arabic_candidate == extract_candidate(out.raw)
                IN  Attempt("arabic", out, arabic_candidate,
                            IF arabic_candidate = <<>> THEN <<>>
                            ELSE str_of(arabic_candidate[1]), "roman")
       ELSE /\ pc' = "roman"
            /\ UNCHANGED <<ret, last_raw, saw_out_of_range, error_messages,
                           result, calls, tmp_files>>
    /\ UNCHANGED <<run_vars, image, args, regions, region_idx, psm_idx>>

\* if parser_mode in {"auto", "roman"}: the Roman attempt
OcrRoman ==
    /\ pc = "roman"
    /\ IF parser_mode(args.cfg) \in {"auto", "roman"}
       THEN \E out \in EngineOutputs(RomanTexts) :
                LET roman_text == extract_roman_letters(out.raw, roman_whitelist(args.cfg))
                IN  Attempt("roman", out, parse_roman_numeral(roman_text),
                            roman_text, "psm_loop")
       ELSE /\ pc' = "psm_loop"
            /\ UNCHANGED <<ret, last_raw, saw_out_of_range, error_messages,
                           result, calls, tmp_files>>
    /\ UNCHANGED <<run_vars, image, args, regions, region_idx, psm_idx>>

\* Lines 362-372: no attempt was accepted.
Finish ==
    /\ pc = "finish"
    /\ LET reason == failure_reason(saw_out_of_range, error_messages)
           filled == [result EXCEPT
                        !.raw_left = raw_get(result.raw_by_region, <<"top", "left">>),
                        !.raw_right = raw_get(result.raw_by_region, <<"top", "right">>),
                        !.reason = reason]
       IN  result' = IF reason = "tesseract_failed"
                     THEN ("tesseract_error" :> error_messages) @@ filled
                     ELSE filled
    /\ ret' = result'
    /\ pc' = "done"
    /\ UNCHANGED <<run_vars, image, args, regions, region_idx, psm_idx, last_raw,
                   saw_out_of_range, error_messages, calls, tmp_files>>

NextOcr ==
    \/ CallExtractPrintedPageNumber
    \/ RegionLoop
    \/ PsmLoop
    \/ OcrArabic
    \/ OcrRoman
    \/ Finish

SpecOcr == InitOcr /\ [][NextOcr]_vars

\* An engine was passed or found on PATH.
EngineAvailable == resolved_tesseract(args) # None

\* The value the code parsed from an attempt's raw text: <<n>>, or <<>>.
ParsedOf(call) == call.parsed

IsDigitString(s) == s # <<>> /\ \A i \in DOMAIN s : is_digit(s[i])

\* C4: a digit OCR result is accepted as printed_page iff the recognized
\* digit string parses to an integer in [1, max_page]; "12345" with
\* max_page = 5000 is not accepted and, nothing else being accepted, the
\* result is printed_page = None with reason "out_of_range"; "0123" is
\* accepted as 123.
C4_DigitAcceptedIffInRange ==
    \A i \in DOMAIN calls :
        (calls[i].kind = "arabic" /\ IsDigitString(calls[i].raw)) =>
            LET n == int_of(calls[i].raw)
                accepted == /\ i = Len(calls)
                            /\ pc = "done"
                            /\ result.printed_page # <<>>
            IN  /\ accepted <=> (1 <= n /\ n <= args.cfg.max_page)
                /\ accepted => /\ result.printed_page = <<n>>
                               /\ result.printed_page_kind = "arabic"
                /\ (pc = "done" /\ result.printed_page = <<>> /\ n > args.cfg.max_page)
                       => result.reason = "out_of_range"

\* The r-th region of a configuration in anchor order, then position order.
ConfiguredRegion(cfg, r) ==
    LET np == Len(cfg.allow_positions)
    IN  <<cfg.anchors[((r - 1) \div np) + 1], cfg.allow_positions[((r - 1) % np) + 1]>>

KindsOf(parser) == IF parser = "auto" THEN <<"arabic", "roman">> ELSE <<parser>>

\* The i-th attempt of a configuration: regions, then psm candidates, then
\* digits before Roman numerals.
AttemptCount(cfg) ==
    Len(cfg.anchors) * Len(cfg.allow_positions) * Len(cfg.psm_candidates)
        * Len(KindsOf(cfg.parser))

ExpectedAttempt(cfg, i) ==
    LET kinds == KindsOf(cfg.parser)
        np == Len(cfg.psm_candidates)
        nk == Len(kinds)
    IN  [region |-> ConfiguredRegion(cfg, ((i - 1) \div (np * nk)) + 1),
         psm |-> cfg.psm_candidates[(((i - 1) \div nk) % np) + 1],
         kind |-> kinds[((i - 1) % nk) + 1]]

InPageRange(parsed, cfg) ==
    parsed # <<>> /\ 1 <= parsed[1] /\ parsed[1] <= cfg.max_page

\* C5: the OCR attempts are made in the order regions (configured
\* anchor/position order), then psm candidates (configured order), then
\* digits before Roman numerals; the first attempt whose parsed value lies
\* in [1, max_page] is returned with its region name, psm value and numeral
\* kind, and no OCR invocation happens after the accepted one.
C5_AttemptOrderFirstAccepted ==
    (pc \notin {"start", "raised"} /\ EngineAvailable) =>
        LET accepted == { i \in DOMAIN calls : InPageRange(ParsedOf(calls[i]), args.cfg) }
        IN  /\ Len(calls) <= AttemptCount(args.cfg)
            /\ \A i \in DOMAIN calls :
                   LET expected == ExpectedAttempt(args.cfg, i)
                   IN  /\ calls[i].region = expected.region
                       /\ calls[i].psm = expected.psm
                       /\ calls[i].kind = expected.kind
            /\ \A i \in accepted :
                   /\ i = Len(calls)
                   /\ pc = "done"
                   /\ result.printed_page = ParsedOf(calls[i])
                   /\ result.region_used = calls[i].region
                   /\ result.psm_used = <<calls[i].psm>>
                   /\ result.printed_page_kind = calls[i].kind
            /\ (pc = "done" /\ accepted = {}) =>
                   /\ result.printed_page = <<>>
                   /\ Len(calls) = AttemptCount(args.cfg)

\* The eighth attempt, Roman at the second psm candidate of the second
\* region, was the first one accepted.
C5_Witness ==
    /\ pc = "done"
    /\ args.cfg.anchors = <<"bottom", "top">>
    /\ args.cfg.psm_candidates = <<8, 7>>
    /\ Len(calls) = 8
    /\ result.printed_page = <<4>>
    /\ result.printed_page_kind = "roman"
    /\ result.region_used = <<"top", "center">>
    /\ result.psm_used = <<7>>

\* C9: with the engine available and no candidate accepted the result is
\* printed_page = None with reason "out_of_range" if some attempt gave a
\* parsable number outside [1, max_page], otherwise "tesseract_failed" if
\* some invocation reported an error, otherwise "no_digits"; in every
\* result printed_page is None exactly when reason is non-null.
C9_ReasonPrecedence ==
    pc = "done" =>
        /\ (result.printed_page = <<>>) <=> (result.reason # None)
        /\ (EngineAvailable /\ result.printed_page = <<>>) =>
               result.reason =
                   IF \E i \in DOMAIN calls :
                          /\ ParsedOf(calls[i]) # <<>>
                          /\ ~InPageRange(ParsedOf(calls[i]), args.cfg)
                   THEN "out_of_range"
                   ELSE IF \E i \in DOMAIN calls : calls[i].last_error # None
                        THEN "tesseract_failed"
                        ELSE "no_digits"

\* A failed invocation came before an out-of-range number and nothing was
\* accepted.
C9_Witness ==
    /\ pc = "done"
    /\ EngineAvailable
    /\ result.printed_page = <<>>
    /\ result.reason = "out_of_range"
    /\ \E i, j \in DOMAIN calls :
           /\ i < j
           /\ calls[i].last_error # None
           /\ ParsedOf(calls[j]) # <<>>

\* C10: with no OCR engine available the call returns printed_page = None
\* and reason = "no_tesseract" for every page image and every
\* configuration dictionary, without invoking the engine.
C10_NoEngineNoTesseract ==
    (pc \in {"done", "raised"} /\ ~EngineAvailable) =>
        /\ pc = "done"
        /\ result.printed_page = <<>>
        /\ result.reason = "no_tesseract"
        /\ calls = <<>>

\* C15: a non-zero exit status or an invocation exception of the engine never
\* propagates out of ocr_text_tesseract or extract_printed_page_number: the
\* failed invocation yields empty text with an error message recorded, the
\* temporary image file is removed, and if every engine invocation of an
\* extraction fails the result is printed_page = None with reason
\* "tesseract_failed".
C15_EngineFailureIsSoft ==
    /\ pc = "raised" => calls = <<>>
    /\ tmp_files = {}
    /\ \A i \in DOMAIN calls :
           run_failed(calls[i].run) =>
               /\ calls[i].raw = <<>>
               /\ calls[i].last_error # None
               /\ \E j \in DOMAIN error_messages : error_messages[j] = calls[i].last_error
    /\ (pc = "done" /\ calls # <<>> /\ \A i \in DOMAIN calls : run_failed(calls[i].run)) =>
           /\ ret.printed_page = <<>>
           /\ ret.reason = "tesseract_failed"

\* An extraction all of whose invocations failed, by exit status and by
\* exception.
C15_Witness ==
    /\ pc = "done"
    /\ Len(calls) >= 2
    /\ \A i \in DOMAIN calls : run_failed(calls[i].run)
    /\ \E i \in DOMAIN calls : calls[i].run.raised
    /\ \E i \in DOMAIN calls : calls[i].run.returncode # 0
    /\ ret.reason = "tesseract_failed"
    /\ ret.printed_page = <<>>
    /\ tmp_files = {}

\* ------------------------------------------------- the batch run (3, 6, 7)
\* Comparison of two floats given as <<num, den>> with den > 0.
FracLt(a, b) == a[1] * b[2] < b[1] * a[2]
FracLe(a, b) == a[1] * b[2] <= b[1] * a[2]

Modes == {"auto", "split", "crop"}
OuterMarginModes == {"off", "fixed", "auto"}

\* No option is ever found invalid.
validate_options_nothing(o) == None

\* _validate_options: None, or the message of the UserError it raises.
validate_options(o) ==
    IF o.mode \notin Modes
    THEN "Mode must be one of: auto, split, crop."
    ELSE IF FracLe(o.split_ratio, Zero)
    THEN "--split_ratio must be > 0."
    ELSE IF FracLe(o.gutter_search_frac, Zero) \/ FracLt(Whole, o.gutter_search_frac)
    THEN "--gutter_search_frac must be in the range (0, 1]."
    ELSE IF o.gutter_trim_px < 0
    THEN "--gutter_trim_px must be >= 0."
    ELSE IF o.outer_margin_mode \notin OuterMarginModes
    THEN "--outer_margin_mode must be one of: off, fixed, auto."
    ELSE IF o.outer_margin_mode = "fixed"
            /\ (FracLt(o.outer_margin_frac, Zero) \/ FracLt(Quarter, o.outer_margin_frac))
    THEN "--outer_margin_frac must be in the range [0, 0.25] for fixed mode."
    ELSE IF o.outer_margin_mode = "auto"
            /\ (FracLt(o.outer_margin_auto_max_frac, Zero)
                \/ FracLt(Quarter, o.outer_margin_auto_max_frac))
    THEN "--outer_margin_auto_max_frac must be in the range [0, 0.25] for auto mode."
    ELSE IF FracLe(o.outer_margin_auto_search_frac, Zero)
            \/ FracLt(Half, o.outer_margin_auto_search_frac)
    THEN "--outer_margin_auto_search_frac must be in the range (0, 0.5]."
    ELSE IF o.outer_margin_dark_threshold < 0 \/ o.outer_margin_dark_threshold > 255
    THEN "--outer_margin_dark_threshold must be in the range [0, 255]."
    ELSE IF FracLt(o.outer_margin_dark_frac_cutoff, Zero)
            \/ FracLt(Whole, o.outer_margin_dark_frac_cutoff)
    THEN "--outer_margin_dark_frac_cutoff must be in the range [0, 1]."
    ELSE IF FracLt(o.outer_margin_release_frac, Zero)
            \/ FracLt(Whole, o.outer_margin_release_frac)
    THEN "--outer_margin_release_frac must be in the range [0, 1]."
    ELSE IF FracLe(o.outer_margin_dark_frac_cutoff, o.outer_margin_release_frac)
    THEN "--outer_margin_release_frac must be < --outer_margin_dark_frac_cutoff."
    ELSE IF o.outer_margin_min_run_px < 1
    THEN "--outer_margin_min_run_px must be >= 1."
    ELSE IF o.outer_margin_pad_px < 0
    THEN "--outer_margin_pad_px must be >= 0."
    ELSE IF o.x_step <= 0
    THEN "--x_step must be a positive integer."
    ELSE IF o.y_step <= 0
    THEN "--y_step must be a positive integer."
    ELSE IF o.crop_threshold < 0 \/ o.crop_threshold > 255
    THEN "--crop_threshold must be in the range [0, 255]."
    ELSE IF o.pad_px < 0
    THEN "--pad_px must be >= 0."
    ELSE IF o.edge_inset_px < 0
    THEN "--edge_inset_px must be >= 0."
    ELSE IF o.symmetry_strategy \notin Strategies
    THEN "--symmetry_strategy must be one of: independent, match_max_width, mirror_from_gutter."
    ELSE IF FracLe(o.min_area_frac, Zero) \/ FracLt(Whole, o.min_area_frac)
    THEN "--min_area_frac must be in the range (0, 1]."
    ELSE None

\* The options of a run with the defaults of the signature; the options
\* without a default are those of the tests.
RunDefaults ==
    [mode |-> "auto", split_ratio |-> <<5, 4>>, gutter_search_frac |-> <<35, 100>>,
     gutter_trim_px |-> 0, x_step |-> 2, y_step |-> 2, crop_threshold |-> 180,
     pad_px |-> 0, edge_inset_px |-> 0, min_area_frac |-> Quarter,
     symmetry_strategy |-> "independent",
     outer_margin_mode |-> "off", outer_margin_frac |-> Zero,
     outer_margin_auto_max_frac |-> <<15, 100>>,
     outer_margin_auto_search_frac |-> <<18, 100>>,
     outer_margin_dark_threshold |-> 80,
     outer_margin_dark_frac_cutoff |-> <<60, 100>>,
     outer_margin_release_frac |-> <<35, 100>>,
     outer_margin_min_run_px |-> 12, outer_margin_pad_px |-> 4]

\* Options every check lets through.
AcceptedOptions ==
    { [RunDefaults EXCEPT !.mode = m, !.symmetry_strategy = s] :
        m \in Modes, s \in {"independent", "mirror_from_gutter"} }
    \* split_ratio at the width / height of the sample's scans, and above both
    \cup { [RunDefaults EXCEPT !.mode = m, !.split_ratio = r] :
             m \in Modes, r \in {Whole, <<2, 1>>, <<3, 1>>} }
    \cup { [RunDefaults EXCEPT !.outer_margin_frac = Half],
           [RunDefaults EXCEPT !.outer_margin_mode = "fixed", !.outer_margin_frac = Quarter],
           [RunDefaults EXCEPT !.outer_margin_mode = "auto",
                               !.symmetry_strategy = "match_max_width"] }

\* Options with one value out of its range, one for each check.
RejectedOptions ==
    { [RunDefaults EXCEPT !.mode = "pages"],
      [RunDefaults EXCEPT !.split_ratio = Zero],
      [RunDefaults EXCEPT !.gutter_search_frac = Zero],
      [RunDefaults EXCEPT !.gutter_search_frac = <<3, 2>>],
      [RunDefaults EXCEPT !.gutter_trim_px = -1],
      [RunDefaults EXCEPT !.outer_margin_mode = "on"],
      [RunDefaults EXCEPT !.outer_margin_mode = "fixed", !.outer_margin_frac = Half],
      [RunDefaults EXCEPT !.outer_margin_mode = "fixed", !.outer_margin_frac = <<-1, 4>>],
      [RunDefaults EXCEPT !.outer_margin_mode = "auto", !.outer_margin_auto_max_frac = Half],
      [RunDefaults EXCEPT !.outer_margin_auto_search_frac = Zero],
      [RunDefaults EXCEPT !.outer_margin_auto_search_frac = Whole],
      [RunDefaults EXCEPT !.outer_margin_dark_threshold = 256],
      [RunDefaults EXCEPT !.outer_margin_dark_frac_cutoff = <<3, 2>>],
      [RunDefaults EXCEPT !.outer_margin_release_frac = <<-1, 4>>],
      [RunDefaults EXCEPT !.outer_margin_release_frac = <<60, 100>>],
      [RunDefaults EXCEPT !.outer_margin_min_run_px = 0],
      [RunDefaults EXCEPT !.outer_margin_pad_px = -1],
      [RunDefaults EXCEPT !.x_step = 0],
      [RunDefaults EXCEPT !.y_step = 0],
      [RunDefaults EXCEPT !.crop_threshold = 256],
      [RunDefaults EXCEPT !.crop_threshold = -1],
      [RunDefaults EXCEPT !.pad_px = -1],
      [RunDefaults EXCEPT !.edge_inset_px = -1],
      [RunDefaults EXCEPT !.symmetry_strategy = "no_such_strategy"],
      [RunDefaults EXCEPT !.mode = "split", !.symmetry_strategy = "no_such_strategy"],
      [RunDefaults EXCEPT !.min_area_frac = Zero],
      [RunDefaults EXCEPT !.min_area_frac = <<3, 2>>] }

\* A path is the directory it lies in and the stem of its name (every image
\* has the suffix .png); a directory is the path of empty stem.
Dir(d) == [dir |-> d, stem |-> <<>>]
File(d, stem) == [dir |-> d, stem |-> stem]
InDir == <<"in">>
OutDir == <<"out">>
\* debug_dir = out_dir / "_debug"
debug_dir(out_dir) == Append(out_dir, "_debug")
exists(disk, path) == path \in DOMAIN disk
is_dir(disk, path) == exists(disk, path) /\ disk[path] = "dir"

\* Image sizes of the scans: a spread, a single page, a strip one pixel wide.
SpreadSize == [width |-> 4, height |-> 2]
SingleSize == [width |-> 2, height |-> 2]
NarrowSize == [width |-> 1, height |-> 2]

\* The stems of the input directory in the order sorted() gives their
\* names: a.png < a_L.png < b.png.
SortedStems == << <<"a">>, <<"a", "_L">>, <<"b">> >>

Scan(stem, size, readable) ==
    [stem |-> stem, width |-> size.width, height |-> size.height, readable |-> readable]

\* What the input directory can hold under each stem.
ScansOf(stem) ==
    IF stem = <<"a">> THEN {Scan(stem, SpreadSize, TRUE), Scan(stem, SingleSize, TRUE)}
    ELSE IF stem = <<"a", "_L">> THEN {Scan(stem, SingleSize, TRUE)}
    ELSE {Scan(stem, SingleSize, TRUE), Scan(stem, SingleSize, FALSE),
          Scan(stem, NarrowSize, TRUE)}

\* The listings of the input directory: at most one scan under each stem.
Listings ==
    { l \in SUBSET (UNION { ScansOf(SortedStems[i]) : i \in DOMAIN SortedStems }) :
        \A x \in l, y \in l : x.stem = y.stem => x = y }

\* sorted(path for path in in_dir.glob(pattern) if path.is_file())
RECURSIVE collect_from(_, _)
collect_from(listing, i) ==
    IF i > Len(SortedStems) THEN <<>>
    ELSE LET here == { x \in listing : x.stem = SortedStems[i] }
         IN  (IF here = {} THEN <<>> ELSE << CHOOSE x \in here : TRUE >>)
             \o collect_from(listing, i + 1)

collect_image_files(listing) == collect_from(listing, 1)

MakeFs(dir_paths, file_paths) ==
    [p \in dir_paths \cup file_paths |-> IF p \in dir_paths THEN "dir" ELSE "file"]

\* What a run can find at the output location: nothing, a file in the place
\* of the directory, or the directory with outputs, debug images and a
\* manifest of an earlier run.
EarlierOutputs == SUBSET { <<"a">>, <<"a", "_L">>, <<"a", "_R">> }
EarlierDebug == { "none", "dir", "image" }

OutputLocations(out_dir) ==
    { [dirs |-> {}, plain |-> {}], [dirs |-> {}, plain |-> {Dir(out_dir)}] }
    \cup { [dirs |-> {Dir(out_dir)}
                     \cup (IF dbg = "none" THEN {} ELSE {Dir(debug_dir(out_dir))}),
            plain |-> { File(out_dir, s) : s \in outs }
                      \cup (IF dbg = "image"
                            THEN {File(debug_dir(out_dir), <<"a", "_debug">>)} ELSE {})
                      \cup (IF man THEN {File(out_dir, <<"manifest">>)} ELSE {})] :
             outs \in EarlierOutputs, dbg \in EarlierDebug, man \in BOOLEAN }

RunArgs(o, in_dir, out_dir, listing, overwrite, inplace, dry_run, debug) ==
    [options |-> o, in_dir |-> in_dir, out_dir |-> out_dir, listing |-> listing,
     overwrite |-> overwrite, inplace |-> inplace, dry_run |-> dry_run,
     debug |-> debug, manifest_path |-> File(out_dir, <<"manifest">>)]

\* One listing for the runs whose options are the point.
SampleListing == { Scan(<<"a">>, SpreadSize, TRUE), Scan(<<"b">>, SingleSize, TRUE) }

InitRun ==
    /\ pc = "start"
    /\ image = NoImage
    /\ ret = NoRet
    /\ OcrIdle
    /\ files = <<>>
    /\ position = 0
    /\ effects = <<>>
    /\ recorder_actions = <<>>
    /\ counters = NoCounters
    /\ error_message = None
    /\ \E overwrite \in BOOLEAN, dry_run \in BOOLEAN, debug \in BOOLEAN :
         \* every mode over every listing and output location
         \/ \E m \in Modes, listing \in Listings, loc \in OutputLocations(OutDir) :
              /\ args = RunArgs([RunDefaults EXCEPT !.mode = m], InDir, OutDir, listing,
                                overwrite, FALSE, dry_run, debug)
              /\ fs = MakeFs(loc.dirs \cup {Dir(InDir)},
                             loc.plain \cup { File(InDir, x.stem) : x \in listing })
         \* every option value over one listing
         \/ \E o \in AcceptedOptions \cup RejectedOptions, loc \in OutputLocations(OutDir) :
              /\ args = RunArgs(o, InDir, OutDir, SampleListing,
                                overwrite, FALSE, dry_run, debug)
              /\ fs = MakeFs(loc.dirs \cup {Dir(InDir)},
                             loc.plain \cup { File(InDir, x.stem) : x \in SampleListing })
         \* the input directory is missing
         \/ /\ args = RunArgs(RunDefaults, InDir, OutDir, {}, overwrite, FALSE, dry_run, debug)
            /\ fs = MakeFs({}, {})
         \* the output directory is the input directory
         \/ \E m \in Modes, inplace \in BOOLEAN :
              /\ args = RunArgs([RunDefaults EXCEPT !.mode = m], InDir, InDir, SampleListing,
                                overwrite, inplace, dry_run, debug)
              /\ fs = MakeFs({Dir(InDir)}, { File(InDir, x.stem) : x \in SampleListing })

\* (width / height) >= split_ratio
detect_spread(width, height, split_ratio) ==
    IF height <= 0 THEN FALSE
    ELSE width * split_ratio[2] >= split_ratio[1] * height

\* <stem>_L and <stem>_R of a split, the input's own name otherwise
output_paths(out_dir, stem, should_split) ==
    IF should_split
    THEN << File(out_dir, Append(stem, "_L")), File(out_dir, Append(stem, "_R")) >>
    ELSE << File(out_dir, stem) >>

debug_path_of(out_dir, stem) == File(debug_dir(out_dir), Append(stem, "_debug"))

\* The existence check looks at nothing.
blocked_by_existing_never(disk, paths, overwrite) == FALSE

\* if any(path.exists() for path in output_paths) and not overwrite
blocked_by_existing(disk, paths, overwrite) ==
    (\E i \in DOMAIN paths : exists(disk, paths[i])) /\ ~overwrite

\* The flag is not looked at.
is_dry_run_never(dry_run) == FALSE

\* if dry_run / if not dry_run / if self.dry_run
is_dry_run(dry_run) == dry_run

\* One operation on the filesystem, with whether its path existed before.
Effect(op, disk, path) == [op |-> op, path |-> path, existed |-> exists(disk, path)]

\* path.mkdir(parents=True, exist_ok=True) of a directory below the root
mkdir(disk, path) == IF exists(disk, path) THEN disk ELSE (path :> "dir") @@ disk

\* image.save(path) and handle.write: the path holds a file afterwards
write_file(disk, path) == (path :> "file") @@ disk

RECURSIVE write_files(_, _)
write_files(disk, paths) ==
    IF paths = <<>> THEN disk ELSE write_files(write_file(disk, Head(paths)), Tail(paths))

RunAction(status, input, outputs, mode_used, error) ==
    [action |-> "page_images", status |-> status, input |-> input,
     outputs |-> outputs, mode_used |-> mode_used, error |-> error]

\* raise UserError(message) inside the try block: the except clause records
\* the error and control reaches the finally clause.
RaiseUserError(message) ==
    /\ error_message' = message
    /\ recorder_actions' =
           Append(recorder_actions, RunAction("error", None, <<>>, None, message))
    /\ pc' = "finally"

\* Lines 606-659: the checks before the loop, the file collection and the
\* output directories.
CallPageImagesInFolder ==
    /\ pc = "start"
    /\ LET o == args.options
           out_dir == Dir(args.out_dir)
           invalid == validate_options(o)
           message ==
               IF ~is_dir(fs, Dir(args.in_dir)) THEN "Input directory not found"
               ELSE IF exists(fs, out_dir) /\ ~is_dir(fs, out_dir)
               THEN "Output directory is not a directory"
               ELSE IF invalid # None THEN invalid
               ELSE IF args.out_dir = args.in_dir /\ ~args.inplace
               THEN "Output directory is the same as input. Use --inplace to allow this."
               ELSE IF args.out_dir = args.in_dir /\ ~args.overwrite
               THEN "In-place page-images processing overwrites files. Use --overwrite to proceed."
               ELSE None
           found == collect_image_files(args.listing)
           made_out == mkdir(fs, out_dir)
           debug_out == Dir(debug_dir(args.out_dir))
       IN  IF message # None
           THEN /\ RaiseUserError(message)
                /\ UNCHANGED <<fs, files, effects, ret>>
           ELSE IF found = <<>>
           THEN /\ files' = found
                /\ ret' = [status |-> "no-matches"]
                /\ pc' = "finally"
                /\ UNCHANGED <<fs, effects, recorder_actions, error_message>>
           ELSE /\ files' = found
                /\ IF is_dry_run(args.dry_run)
                   THEN UNCHANGED <<fs, effects>>
                   ELSE IF args.debug
                   THEN /\ fs' = mkdir(made_out, debug_out)
                        /\ effects' = effects \o << Effect("mkdir", fs, out_dir),
                                                    Effect("mkdir", made_out, debug_out) >>
                   ELSE /\ fs' = made_out
                        /\ effects' = Append(effects, Effect("mkdir", fs, out_dir))
                /\ pc' = "loop"
                /\ UNCHANGED <<ret, recorder_actions, error_message>>
    /\ UNCHANGED <<image, args, ocr_vars, position, counters>>

\* should_split left as the mode and the spread test decided it.
too_narrow_guard_absent(should_split, width) == should_split

\* if should_split and width < 2: should_split = False
too_narrow_guard(should_split, width) == should_split /\ ~(width < 2)

\* The counters with a crop-only image left out of crop_only_count.
count_processed_split_only(c, should_split) ==
    [c EXCEPT !.processed = @ + 1,
              !.split_count = IF should_split THEN @ + 1 ELSE @]

\* processed += 1, and split_count += 1 or crop_only_count += 1
count_processed(c, should_split) ==
    [c EXCEPT !.processed = @ + 1,
              !.split_count = IF should_split THEN @ + 1 ELSE @,
              !.crop_only_count = IF should_split THEN @ ELSE @ + 1]

\* One iteration of the loop over the files (lines 661-927).  The pixels of
\* the scan decide the gutter and the boxes, which go into the produced
\* images and the action's details; the run's state keeps neither.
ProcessImage ==
    /\ pc = "loop"
    /\ position < Len(files)
    /\ LET in_file == files[position + 1]
           in_path == File(args.in_dir, in_file.stem)
           o == args.options
           detected_spread == detect_spread(in_file.width, in_file.height, o.split_ratio)
           wants_split == o.mode = "split" \/ (o.mode = "auto" /\ detected_spread)
           should_split == too_narrow_guard(wants_split, in_file.width)
           mode_used == IF should_split THEN "split" ELSE "crop"
           outs == output_paths(args.out_dir, in_file.stem, should_split)
           opened == Append(effects, Effect("open", fs, in_path))
           called == IF should_split
                     THEN Append(opened, [op |-> "apply_split_symmetry_strategy",
                                          path |-> in_path, existed |-> TRUE,
                                          strategy |-> o.symmetry_strategy])
                     ELSE opened
           saved == write_files(fs, outs)
           after_save == IF is_dry_run(args.dry_run) THEN called
                         ELSE called \o [i \in DOMAIN outs |->
                                  Effect("save", write_files(fs, SubSeq(outs, 1, i - 1)), outs[i])]
           disk_after_save == IF is_dry_run(args.dry_run) THEN fs ELSE saved
           debug_path == debug_path_of(args.out_dir, in_file.stem)
           writes_debug == /\ args.debug
                           /\ ~is_dry_run(args.dry_run)
                           /\ ~(exists(disk_after_save, debug_path) /\ ~args.overwrite)
       IN  IF ~in_file.readable
           THEN /\ RaiseUserError("Failed to read image")
                /\ effects' = opened
                /\ UNCHANGED <<fs, position, counters>>
           ELSE IF blocked_by_existing(fs, outs, args.overwrite)
           THEN /\ counters' = [counters EXCEPT !.skipped = @ + 1]
                /\ recorder_actions' =
                       Append(recorder_actions,
                              RunAction("skipped", in_path, outs, mode_used, None))
                /\ effects' = opened
                /\ position' = position + 1
                /\ UNCHANGED <<fs, pc, error_message>>
           ELSE /\ fs' = IF writes_debug THEN write_file(disk_after_save, debug_path)
                         ELSE disk_after_save
                /\ effects' = IF writes_debug
                              THEN Append(after_save,
                                          Effect("save_debug", disk_after_save, debug_path))
                              ELSE after_save
                /\ counters' = count_processed(counters, should_split)
                /\ recorder_actions' =
                       Append(recorder_actions,
                              RunAction(IF is_dry_run(args.dry_run) THEN "dry-run" ELSE "written",
                                        in_path, outs, mode_used, None))
                /\ position' = position + 1
                /\ UNCHANGED <<pc, error_message>>
    /\ UNCHANGED <<image, args, ret, ocr_vars, files>>

\* The loop is over: control leaves the try block.
LoopEnd ==
    /\ pc = "loop"
    /\ position = Len(files)
    /\ pc' = "finally"
    /\ UNCHANGED <<image, args, ret, ocr_vars, run_vars>>

\* The finally clause (lines 938-947): the summary and the manifest.  The
\* manifest's directory is made first; a plain file in its place makes mkdir
\* raise FileExistsError.
Finally ==
    /\ pc = "finally"
    /\ LET summary ==
               [files_found |-> Len(files), processed |-> counters.processed,
                split_count |-> counters.split_count,
                crop_only_count |-> counters.crop_only_count,
                skipped |-> counters.skipped,
                status |-> IF ret # NoRet THEN ret.status
                           ELSE IF error_message # None THEN "error" ELSE "ok"]
           parent == Dir(args.manifest_path.dir)
           made == mkdir(fs, parent)
       IN  IF is_dry_run(args.dry_run)
           THEN /\ ret' = [raised |-> IF error_message # None THEN "UserError" ELSE None,
                           summary |-> summary]
                /\ pc' = IF error_message # None THEN "raised" ELSE "done"
                /\ UNCHANGED <<fs, effects>>
           ELSE IF exists(fs, parent) /\ ~is_dir(fs, parent)
           THEN /\ ret' = [raised |-> "FileExistsError", summary |-> summary]
                /\ pc' = "raised"
                /\ effects' = Append(effects, Effect("mkdir", fs, parent))
                /\ UNCHANGED fs
           ELSE /\ ret' = [raised |-> IF error_message # None THEN "UserError" ELSE None,
                           summary |-> summary]
                /\ pc' = IF error_message # None THEN "raised" ELSE "done"
                /\ fs' = write_file(made, args.manifest_path)
                /\ effects' = effects \o << Effect("mkdir", fs, parent),
                                            Effect("write_manifest", made, args.manifest_path) >>
    /\ UNCHANGED <<image, args, ocr_vars, files, position, recorder_actions,
                   counters, error_message>>

NextRun ==
    \/ CallPageImagesInFolder
    \/ ProcessImage
    \/ LoopEnd
    \/ Finally

SpecRun == InitRun /\ [][NextRun]_vars

\* Every option lies in the range its help text documents.
OptionsInRange(o) ==
    /\ o.mode \in {"auto", "split", "crop"}
    /\ FracLt(Zero, o.split_ratio)
    /\ FracLt(Zero, o.gutter_search_frac) /\ FracLe(o.gutter_search_frac, Whole)
    /\ o.gutter_trim_px >= 0
    /\ o.outer_margin_mode \in {"off", "fixed", "auto"}
    /\ o.outer_margin_mode = "fixed" =>
           (FracLe(Zero, o.outer_margin_frac) /\ FracLe(o.outer_margin_frac, Quarter))
    /\ o.outer_margin_mode = "auto" =>
           (FracLe(Zero, o.outer_margin_auto_max_frac)
            /\ FracLe(o.outer_margin_auto_max_frac, Quarter))
    /\ FracLt(Zero, o.outer_margin_auto_search_frac)
    /\ FracLe(o.outer_margin_auto_search_frac, Half)
    /\ o.outer_margin_dark_threshold \in 0 .. 255
    /\ FracLe(Zero, o.outer_margin_dark_frac_cutoff)
    /\ FracLe(o.outer_margin_dark_frac_cutoff, Whole)
    /\ FracLe(Zero, o.outer_margin_release_frac)
    /\ FracLe(o.outer_margin_release_frac, Whole)
    /\ FracLt(o.outer_margin_release_frac, o.outer_margin_dark_frac_cutoff)
    /\ o.outer_margin_min_run_px >= 1
    /\ o.outer_margin_pad_px >= 0
    /\ o.x_step > 0
    /\ o.y_step > 0
    /\ o.crop_threshold \in 0 .. 255
    /\ o.pad_px >= 0
    /\ o.edge_inset_px >= 0
    /\ o.symmetry_strategy \in {"independent", "match_max_width", "mirror_from_gutter"}
    /\ FracLt(Zero, o.min_area_frac) /\ FracLe(o.min_area_frac, Whole)

ImageOps == {"open", "save", "save_debug", "apply_split_symmetry_strategy"}

\* A run with an option out of range touches no image, and no run hands an
\* unknown strategy to _apply_split_symmetry_strategy.
ValidationPrecedesImages ==
    /\ (pc # "start" /\ ~OptionsInRange(args.options)) =>
           /\ error_message # None
           /\ \A i \in DOMAIN effects : effects[i].op \notin ImageOps
           /\ counters.processed = 0
           /\ position = 0
    /\ \A i \in DOMAIN effects :
           effects[i].op = "apply_split_symmetry_strategy" =>
               effects[i].strategy \in Strategies

\* C16: page_images_in_folder validates every option before any image is
\* opened or any output image is written: with any invalid option, a
\* symmetry strategy outside the three known ones included, it raises
\* UserError with zero images processed, so _apply_split_symmetry_strategy
\* is never reached with an unknown strategy during a run.
C16_InvalidOptionRaisesUserError ==
    /\ ValidationPrecedesImages
    /\ (pc \in {"done", "raised"} /\ ~OptionsInRange(args.options)) =>
           (pc = "raised" /\ ret.raised = "UserError")

WriteOps == {"mkdir", "save", "save_debug", "write_manifest"}
ImageWriteOps == {"save", "save_debug"}

\* The operations a step adds to effects.
NewEffects == SubSeq(effects', Len(effects) + 1, Len(effects'))

\* The output paths of a readable input: its own name when it is cropped,
\* <stem>_L and <stem>_R when it is split.
OutputsOf(in_file) ==
    LET o == args.options
        split == /\ o.mode = "split" \/ (o.mode = "auto"
                                         /\ detect_spread(in_file.width, in_file.height,
                                                          o.split_ratio))
                 /\ in_file.width >= 2
    IN  IF split
        THEN { File(args.out_dir, Append(in_file.stem, "_L")),
               File(args.out_dir, Append(in_file.stem, "_R")) }
        ELSE { File(args.out_dir, in_file.stem) }

LastAction == recorder_actions[Len(recorder_actions)]

\* The loop is at a readable image one of whose output paths exists.
AtImageWithExistingOutput ==
    /\ pc = "loop"
    /\ position < Len(files)
    /\ files[position + 1].readable
    /\ \E p \in OutputsOf(files[position + 1]) : exists(fs, p)

\* C17: with overwrite = False the run never writes an image to a path that
\* already exists; if any output path of an image exists, none of that
\* image's outputs is written, the image is counted as skipped and recorded
\* with status "skipped", and processing continues with the next image.
C17_NoOverwriteWithoutFlag ==
    [][ ~args.overwrite =>
          /\ \A i \in DOMAIN NewEffects :
                 NewEffects[i].op \in ImageWriteOps =>
                     (~NewEffects[i].existed /\ ~exists(fs, NewEffects[i].path))
          /\ AtImageWithExistingOutput =>
                 /\ fs' = fs
                 /\ \A i \in DOMAIN NewEffects : NewEffects[i].op \notin WriteOps
                 /\ counters' = [counters EXCEPT !.skipped = @ + 1]
                 /\ Len(recorder_actions') = Len(recorder_actions) + 1
                 /\ recorder_actions'[Len(recorder_actions')].status = "skipped"
                 /\ recorder_actions'[Len(recorder_actions')].input =
                        File(args.in_dir, files[position + 1].stem)
                 /\ position' = position + 1
                 /\ pc' = "loop"
      ]_vars

\* A split run without overwrite found a_R.png of an earlier run: a.png was
\* skipped, nothing was written for it, and b.png was written after it.
C17_Witness ==
    /\ pc = "done"
    /\ ~args.overwrite
    /\ Len(recorder_actions) = 2
    /\ recorder_actions[1].status = "skipped"
    /\ recorder_actions[1].mode_used = "split"
    /\ recorder_actions[2].status = "written"
    /\ counters.skipped = 1
    /\ counters.processed = 1
    /\ exists(fs, File(OutDir, <<"a", "_R">>))
    /\ ~exists(fs, File(OutDir, <<"a", "_L">>))
    /\ \A i \in DOMAIN effects :
           effects[i].op \in ImageWriteOps => effects[i].path = File(OutDir, <<"b">>)

\* Whether the existence check stops the image, the filesystem being disk.
StoppedByExisting(disk, action) ==
    ~args.overwrite /\ \E i \in DOMAIN action.outputs : exists(disk, action.outputs[i])

\* C18: with dry_run = True a run writes nothing to the filesystem: no output
\* image, no debug image, no output or debug directory and no manifest file;
\* every image that would have been written is recorded with status
\* "dry-run" instead.
C18_DryRunWritesNothing ==
    /\ [][ args.dry_run => fs' = fs ]_vars
    /\ [](args.dry_run =>
            /\ \A i \in DOMAIN effects : effects[i].op \notin WriteOps
            /\ \A i \in DOMAIN recorder_actions :
                   LET a == recorder_actions[i]
                   IN  /\ a.status # "written"
                       /\ (a.status # "error" /\ ~StoppedByExisting(fs, a)) =>
                              a.status = "dry-run"
            /\ (pc = "done" /\ error_message = None) =>
                   Len(recorder_actions) = Cardinality(args.listing))

\* A dry run with debug images asked for went through a spread and a page:
\* both are recorded as dry-run and the output directory still does not exist.
C18_Witness ==
    /\ pc = "done"
    /\ args.dry_run
    /\ args.debug
    /\ Len(recorder_actions) = 2
    /\ recorder_actions[1].status = "dry-run"
    /\ recorder_actions[1].mode_used = "split"
    /\ recorder_actions[2].status = "dry-run"
    /\ ~exists(fs, Dir(OutDir))
    /\ ~exists(fs, args.manifest_path)
    /\ counters.processed = 2

\* ------------------------------------------- split with a collapsing trim
\* The trim collapses a half: gutter_x - trim <= 0 or gutter_x + trim >= width.
TrimCollapsesHalf ==
    \/ args.gutter_x - args.gutter_trim_px <= 0
    \/ args.gutter_x + args.gutter_trim_px >= image.width

\* C21: when gutter_trim_px is so large that a half would be left with zero
\* or negative width (gutter_x - trim <= 0 or gutter_x + trim >= width),
\* split_spread_image returns the untrimmed split at gutter_x: the left half
\* is the columns [0, gutter_x) and the right half the columns
\* [gutter_x, width).
C21_CollapsingTrimGivesUntrimmedSplit ==
    ( /\ pc = "split_spread_image"
      /\ image.width >= 2
      /\ args.gutter_x \in 1 .. image.width - 1
      /\ args.gutter_trim_px > 0
      /\ TrimCollapsesHalf ) =>
        /\ ret.raised = None
        /\ ret.left.x0 = 0
        /\ ret.left.x1 = args.gutter_x
        /\ ret.right.x0 = args.gutter_x
        /\ ret.right.x1 = image.width

\* --------------------------------------------- the "area too small" fallback
AreaTooSmallNote == "Detected page area too small; used full image."

\* The area of the bounding box of the bright pixels of the image.
BrightBoxArea ==
    LET b == mask_getbbox(image, args.crop_threshold)
    IN  (b[3] - b[1]) * (b[4] - b[2])

\* The call without inset of a pair of calls took the fallback.
TookAreaFallback ==
    ret.no_inset.used_fallback /\ ret.no_inset.note = AreaTooSmallNote

\* C22 as stated: find_crop_bbox falls back to the full image with the
\* "area too small" note whenever the area of the bright-pixel bounding box
\* is below min_area_frac * width * height, and does not take this fallback
\* when the area is at or above that product.
C22_AreaFallbackIffBelowFraction ==
    (pc = "find_crop_bbox_twice" /\ ~NoBrightPixel(image, args.crop_threshold)) =>
        (TookAreaFallback <=>
            BrightBoxArea * args.min_area_frac[2] <
                image.width * image.height * args.min_area_frac[1])

\* C22 as amended: the threshold is the product truncated to an integer, so
\* find_crop_bbox takes the "area too small" fallback exactly when the
\* bright-pixel bounding box is at least one whole pixel short of
\* min_area_frac * width * height (area + 1 <= min_area_frac * width * height);
\* a box less than one pixel short is kept.
C22_AreaFallbackIffWholePixelBelow ==
    (pc = "find_crop_bbox_twice" /\ ~NoBrightPixel(image, args.crop_threshold)) =>
        /\ TookAreaFallback <=>
              (BrightBoxArea + 1) * args.min_area_frac[2] <=
                  image.width * image.height * args.min_area_frac[1]
        /\ TookAreaFallback => ret.no_inset.bbox = FullBox(image)
        /\ ret.inset.note = AreaTooSmallNote <=> TookAreaFallback

\* A bright box of 5 pixels in a 5 x 5 image fell back with
\* min_area_frac = 1/4: 5 is below int(6.25) = 6.
C22_Witness ==
    /\ pc = "find_crop_bbox_twice"
    /\ image.width = 5 /\ image.height = 5
    /\ ~NoBrightPixel(image, args.crop_threshold)
    /\ BrightBoxArea = 5
    /\ args.min_area_frac = Quarter
    /\ TookAreaFallback

\* ------------------------------------------------ an inset that collapses
\* C23: when edge_inset_px > 0 is so large that shrinking the padded box on
\* all four sides would collapse it (the inset is at least half the box's
\* width or height), find_crop_bbox falls back to the full image with
\* used_fallback True and a note.  The padded box is the box returned with
\* edge_inset_px = 0 and the outer clamp off.
C23_CollapsingInsetFallsBack ==
    ( /\ pc = "find_crop_bbox_twice"
      /\ args.outer_margin_mode = "off"
      /\ ~ret.no_inset.used_fallback
      /\ \/ 2 * TestEdgeInsetPx >= ret.no_inset.bbox[3] - ret.no_inset.bbox[1]
         \/ 2 * TestEdgeInsetPx >= ret.no_inset.bbox[4] - ret.no_inset.bbox[2] ) =>
        /\ ret.inset.used_fallback
        /\ ret.inset.bbox = FullBox(image)
        /\ ret.inset.note # None

\* ------------------------------------- specification: outer bar detector
MaxBarW == 6
MaxBarH == 2

\* A bright page (245) whose column x has its darks[x + 1] topmost pixels
\* dark (10).
BarImage(w, h, darks) ==
    [width |-> w, height |-> h,
     px |-> [x \in 0 .. w - 1 |-> [y \in 0 .. h - 1 |->
                IF y < darks[x + 1] THEN 10 ELSE 245]]]

SomeBarImage(im, max_w, max_h) ==
    \E w \in 1 .. max_w, h \in 1 .. max_h :
        \E darks \in [1 .. w -> 0 .. h] : im = BarImage(w, h, darks)

BarSearchFracs == {<<1, 10>>, Half, Whole}
BarMinRuns == {1, 2, 3}

\* The keyword arguments of detect_outer_black_bar_px, the thresholds at
\* the defaults of find_crop_bbox.
BarArgs ==
    { [side |-> s, search_frac |-> f,
       dark_threshold |-> CropDefaults.outer_margin_dark_threshold,
       dark_frac_cutoff |-> CropDefaults.outer_margin_dark_frac_cutoff,
       release_frac |-> CropDefaults.outer_margin_release_frac,
       min_run_px |-> m] :
        s \in {"left", "right"}, f \in BarSearchFracs, m \in BarMinRuns }

InitBar ==
    /\ pc = "start"
    /\ \/ SomeBarImage(image, MaxBarW, MaxBarH)
       \/ image \in {Blank(0, 0), Blank(0, MaxBarH), Blank(MaxBarW, 0)}
    /\ args = NoArgs
    /\ ret = NoRet
    /\ OcrIdle
    /\ RunIdle

CallDetectOuterBlackBarPx ==
    /\ pc = "start"
    /\ \E p \in BarArgs :
         /\ args' = p
         /\ ret' = [px |-> detect_outer_black_bar_px(image, p)]
    /\ pc' = "detect_outer_black_bar_px"
    /\ UNCHANGED <<run_vars, image, ocr_vars>>

NextBar == CallDetectOuterBlackBarPx

SpecBar == InitBar /\ [][NextBar]_vars

\* The search window of the call: search_width columns, counted from the
\* edge of args.side.
BarSearchWidth ==
    IF image.width <= 0 \/ image.height <= 0
    THEN 0
    ELSE Max2(1, Min2(image.width, (image.width * args.search_frac[1])
                                       \div args.search_frac[2]))

\* The number of dark pixels of the column at offset idx from the edge.
DarkCountAt(idx) ==
    LET x == IF args.side = "left" THEN idx ELSE image.width - 1 - idx
    IN  Cardinality({ y \in 0 .. image.height - 1 :
                        image.px[x][y] < args.dark_threshold })

\* dark fraction >= dark_frac_cutoff
IsBarColumn(idx) ==
    DarkCountAt(idx) * args.dark_frac_cutoff[2] >=
        args.dark_frac_cutoff[1] * image.height

\* dark fraction <= release_frac
IsReleaseColumn(idx) ==
    DarkCountAt(idx) * args.release_frac[2] <= args.release_frac[1] * image.height

\* The offsets at which an uninterrupted run of min_run_px release columns
\* starts inside the window with a bar column somewhere before it.
ReleaseRunStarts ==
    { s \in 0 .. BarSearchWidth - args.min_run_px :
        /\ \A i \in s .. s + args.min_run_px - 1 : IsReleaseColumn(i)
        /\ \E b \in 0 .. s - 1 : IsBarColumn(b) }

\* C24: detect_outer_black_bar_px returns 0 if and only if no column of the
\* search window has a dark fraction >= dark_frac_cutoff; otherwise it
\* returns the offset from the edge of the first column of the first
\* uninterrupted run of min_run_px columns with dark fraction <= release_frac
\* that follows a bar column, or the width of the search window when no such
\* run completes.  The result is always in [0, search_width].
C24_BarWidthIsFirstReleaseRun ==
    pc = "detect_outer_black_bar_px" =>
        LET bar_seen == \E b \in 0 .. BarSearchWidth - 1 : IsBarColumn(b)
        IN  /\ (ret.px = 0) <=> ~bar_seen
            /\ (bar_seen /\ ReleaseRunStarts # {}) => ret.px = SetMin(ReleaseRunStarts)
            /\ (bar_seen /\ ReleaseRunStarts = {}) => ret.px = BarSearchWidth
            /\ ret.px \in 0 .. BarSearchWidth

\* A bar of two columns, a half-dark column, then two release columns: the
\* run of min_run_px = 2 starts at offset 3 in a window of 6.
C24_Witness ==
    /\ pc = "detect_outer_black_bar_px"
    /\ image.width = 6
    /\ BarSearchWidth = 6
    /\ args.min_run_px = 2
    /\ IsBarColumn(0) /\ IsBarColumn(1)
    /\ ~IsBarColumn(2) /\ ~IsReleaseColumn(2)
    /\ IsReleaseColumn(3) /\ IsReleaseColumn(4)
    /\ ret.px = 3

\* ------------------------------------ specification: outer clamp resolution
MaxClampW == 4

\* The outer-margin arguments of one call, for a left and for a right page.
ClampArgs ==
    { CropCall([crop_threshold |-> 180, pad_px |-> 0, min_area_frac |-> Quarter,
                edge_inset_px |-> 0, is_left_page |-> s, outer |-> o]) :
        s \in BOOLEAN, o \in OuterMarginArgs }

InitClamp ==
    /\ pc = "start"
    /\ SomeBarImage(image, MaxClampW, MaxBarH)
    /\ args = NoArgs
    /\ ret = NoRet
    /\ OcrIdle
    /\ RunIdle

\* _resolve_outer_clamp_px as find_crop_bbox calls it, the result recorded
\* as outer_clamp_debug records it.
CallResolveOuterClampPx ==
    /\ pc = "start"
    /\ \E a \in ClampArgs :
         /\ args' = a
         /\ ret' = [mode |-> a.outer_margin_mode,
                    detected_bar_px |-> resolve_outer_clamp_px(image, a)[1],
                    applied_clamp_px |-> resolve_outer_clamp_px(image, a)[2]]
    /\ pc' = "resolve_outer_clamp_px"
    /\ UNCHANGED <<run_vars, image, ocr_vars>>

NextClamp == CallResolveOuterClampPx

SpecClamp == InitClamp /\ [][NextClamp]_vars

\* int(width * frac) of the image of the call (frac >= 0)
WidthFraction(frac) == (image.width * frac[1]) \div frac[2]

AutoCap == WidthFraction(args.outer_margin_auto_max_frac)

\* C25 as stated: the applied outer clamp is 0 in mode off,
\* int(width * outer_margin_frac) in mode fixed (no detection: detected_bar_px
\* is reported as 0), and in mode auto it equals
\* min(detected_bar_px + outer_margin_pad_px,
\*     int(width * outer_margin_auto_max_frac)),
\* so that in auto mode it never exceeds the configured cap.
C25_AppliedClampPerMode ==
    pc = "resolve_outer_clamp_px" =>
        /\ args.outer_margin_mode = "off" => ret.applied_clamp_px = 0
        /\ args.outer_margin_mode = "fixed" =>
              /\ ret.applied_clamp_px = WidthFraction(args.outer_margin_frac)
              /\ ret.detected_bar_px = 0
        /\ args.outer_margin_mode = "auto" =>
              /\ ret.applied_clamp_px =
                    Min2(ret.detected_bar_px + args.outer_margin_pad_px, AutoCap)
              /\ ret.applied_clamp_px <= AutoCap

\* C25 as amended: as stated for the modes off and fixed; in mode auto the
\* clamp is 0 when no bar is detected (detected_bar_px = 0), whatever
\* outer_margin_pad_px is, and min(detected_bar_px + outer_margin_pad_px,
\* int(width * outer_margin_auto_max_frac)) when a bar is detected; it never
\* exceeds the cap.
C25_AppliedClampPerModeWhenBarDetected ==
    pc = "resolve_outer_clamp_px" =>
        /\ args.outer_margin_mode = "off" =>
              (ret.applied_clamp_px = 0 /\ ret.detected_bar_px = 0)
        /\ args.outer_margin_mode = "fixed" =>
              /\ ret.applied_clamp_px = WidthFraction(args.outer_margin_frac)
              /\ ret.detected_bar_px = 0
        /\ args.outer_margin_mode = "auto" =>
              /\ ret.detected_bar_px >= 0
              /\ ret.detected_bar_px = 0 => ret.applied_clamp_px = 0
              /\ ret.detected_bar_px > 0 =>
                    ret.applied_clamp_px =
                        Min2(ret.detected_bar_px + args.outer_margin_pad_px, AutoCap)
              /\ ret.applied_clamp_px <= AutoCap

\* A detected bar of 2 columns padded by 1 was cut down to the cap
\* int(4 * 1/4) = 1.
C25_Witness ==
    /\ pc = "resolve_outer_clamp_px"
    /\ args.outer_margin_mode = "auto"
    /\ image.width = 4
    /\ args.outer_margin_auto_max_frac = Quarter
    /\ args.outer_margin_pad_px = 1
    /\ ret.detected_bar_px = 2
    /\ ret.applied_clamp_px = 1

\* ------------------------- specification: the crop box with and without clamp
ClampPairArgs ==
    { c \in CropArgs : c.outer.outer_margin_mode # "off" /\ c.min_area_frac = Quarter }

InitClampPair ==
    /\ pc = "start"
    /\ SomeBarImage(image, MaxClampW, MaxBarH)
    /\ args = NoArgs
    /\ ret = NoRet
    /\ OcrIdle
    /\ RunIdle

\* find_crop_bbox with the outer clamp off and with the clamp of the call,
\* and the applied clamp as outer_clamp_debug records it.
CallFindCropBboxClampPair ==
    /\ pc = "start"
    /\ \E c \in ClampPairArgs :
         /\ args' = CropCall(c)
         /\ ret' = [no_clamp |-> find_crop_bbox(image,
                                     [CropCall(c) EXCEPT !.outer_margin_mode = "off"]),
                    clamp |-> find_crop_bbox(image, CropCall(c)),
                    applied_clamp_px |-> resolve_outer_clamp_px(image, CropCall(c))[2]]
    /\ pc' = "find_crop_bbox_clamp_pair"
    /\ UNCHANGED <<run_vars, image, ocr_vars>>

NextClampPair == CallFindCropBboxClampPair

SpecClampPair == InitClampPair /\ [][NextClampPair]_vars

\* C26: in a non-fallback result of find_crop_bbox an applied outer clamp
\* c > 0 changes only the outer boundary: for a left page left = max(left0, c)
\* and top, right, bottom equal the result with the clamp off; for a right
\* page right = min(right0, width - c) and left, top, bottom equal the result
\* with the clamp off.
C26_ClampMovesOnlyOuterEdge ==
    ( /\ pc = "find_crop_bbox_clamp_pair"
      /\ ~ret.clamp.used_fallback
      /\ ret.applied_clamp_px > 0 ) =>
        LET b0 == ret.no_clamp.bbox
            b == ret.clamp.bbox
            c == ret.applied_clamp_px
        IN  /\ ~ret.no_clamp.used_fallback
            /\ b[2] = b0[2]
            /\ b[4] = b0[4]
            /\ args.is_left_page => (b[1] = Max2(b0[1], c) /\ b[3] = b0[3])
            /\ ~args.is_left_page =>
                  (b[3] = Min2(b0[3], image.width - c) /\ b[1] = b0[1])

\* The clamp moved the left edge of a left page inward and left the rest.
C26_Witness ==
    /\ pc = "find_crop_bbox_clamp_pair"
    /\ args.is_left_page
    /\ args.outer_margin_mode = "auto"
    /\ ~ret.clamp.used_fallback
    /\ ret.applied_clamp_px > ret.no_clamp.bbox[1]
    /\ ret.clamp.bbox[1] = ret.applied_clamp_px
    /\ ret.clamp.bbox[3] = ret.no_clamp.bbox[3]
    /\ ret.clamp.bbox[3] - ret.clamp.bbox[1] >= 2

\* ------------------------------------ specification: page-number regions
MaxRegionW == 8
MaxRegionH == 8
\* The page of test_page_number_corner_region_bounds
TestPageW == 1000
TestPageH == 1500

AnchorChoices == { <<"top">>, <<"bottom">>, <<"top", "bottom">>, <<"bottom", "top">> }
PositionChoices ==
    { <<"left", "right">>, <<"right", "left">>, <<"center">>,
      <<"left", "center", "right">> }

\* strip 0.12, corner 0.28 x 0.45, center 0.2: the fractions of the test
\* and of the configuration defaults.
TestRegionFracs ==
    [strip_frac |-> <<3, 25>>, corner_w_frac |-> <<7, 25>>,
     corner_h_frac |-> <<9, 20>>, center_w_frac |-> <<1, 5>>]

RegionFracs ==
    { [strip_frac |-> s, corner_w_frac |-> cw, corner_h_frac |-> ch,
       center_w_frac |-> ce] :
        s \in {<<3, 25>>, Half, Whole}, cw \in {<<7, 25>>, <<1, 100>>, Whole},
        ch \in {<<9, 20>>, Whole}, ce \in {<<1, 5>>, Whole} }

\* The dictionaries of build_page_num_regions: with the positions under
\* "allow_positions" as page_images_in_folder passes them, or under
\* "positions" only; strip_y_offset_px absent, 0 or 2.
RegionCfgs ==
    { [anchors |-> a, positions |-> p, strip_frac |-> f.strip_frac,
       corner_w_frac |-> f.corner_w_frac, corner_h_frac |-> f.corner_h_frac,
       center_w_frac |-> f.center_w_frac] :
        a \in AnchorChoices, p \in PositionChoices, f \in RegionFracs }
    \cup
    { [anchors |-> a, positions |-> p, allow_positions |-> p,
       strip_y_offset_px |-> o, strip_frac |-> f.strip_frac,
       corner_w_frac |-> f.corner_w_frac, corner_h_frac |-> f.corner_h_frac,
       center_w_frac |-> f.center_w_frac] :
        a \in AnchorChoices, p \in PositionChoices, f \in {TestRegionFracs},
        o \in {0, 2} }

InitRegions ==
    /\ pc = "start"
    /\ image \in { Blank(w, h) : w \in 1 .. MaxRegionW, h \in 1 .. MaxRegionH }
                 \cup {Blank(TestPageW, TestPageH)}
    /\ args = NoArgs
    /\ ret = NoRet
    /\ OcrIdle
    /\ RunIdle

CallBuildPageNumRegions ==
    /\ pc = "start"
    /\ \E cfg \in RegionCfgs :
         /\ args' = [cfg |-> cfg]
         /\ ret' = build_page_num_region_boxes(image.width, image.height, cfg)
    /\ pc' = "build_page_num_regions"
    /\ UNCHANGED <<run_vars, image, ocr_vars>>

NextRegions == CallBuildPageNumRegions

SpecRegions == InitRegions /\ [][NextRegions]_vars

\* The region of ret with the given name, when there is one.
RegionNamed(anchor, pos) ==
    CHOOSE r \in { ret.regions[i] : i \in 1 .. Len(ret.regions) } :
        r.name = <<anchor, pos>>

\* C27: build_page_num_regions returns exactly one region per configured
\* (anchor, position) pair, in anchor-major configured order, named
\* "<anchor>_<position>"; for width, height >= 1 and fractions in (0, 1] each
\* box satisfies 0 <= x0 < x1 <= width and 0 <= y0 < y1 <= height, left
\* regions start at x = 0 and right regions end at x = width; a 1000 x 1500
\* page with strip 0.12 and corner 0.28 x 0.45 gives top_left (0, 0, 280, 81)
\* and top_right (720, 0, 1000, 81).
C27_OneBoxPerAnchorAndPosition ==
    pc = "build_page_num_regions" =>
        LET anchors == args.cfg.anchors
            positions == args.cfg.positions
            n == Len(positions)
        IN  /\ ret.raised = None
            /\ Len(ret.regions) = Len(anchors) * n
            /\ \A i \in 1 .. Len(anchors), j \in 1 .. n :
                  ret.regions[(i - 1) * n + j].name = <<anchors[i], positions[j]>>
            /\ \A k \in 1 .. Len(ret.regions) :
                  LET b == ret.regions[k].box
                      pos == ret.regions[k].name[2]
                  IN  /\ 0 <= b[1] /\ b[1] < b[3] /\ b[3] <= image.width
                      /\ 0 <= b[2] /\ b[2] < b[4] /\ b[4] <= image.height
                      /\ pos = "left" => b[1] = 0
                      /\ pos = "right" => b[3] = image.width
            /\ ( /\ image = Blank(TestPageW, TestPageH)
                 /\ anchors = <<"top">> /\ positions = <<"left", "right">>
                 /\ \A key \in DOMAIN TestRegionFracs :
                        args.cfg[key] = TestRegionFracs[key]
                 /\ strip_y_offset_px(args.cfg) = 0 ) =>
                   /\ RegionNamed("top", "left").box = <<0, 0, 280, 81>>
                   /\ RegionNamed("top", "right").box = <<720, 0, 1000, 81>>

\* The regions of the 1000 x 1500 page of the test were built.
C27_Witness ==
    /\ pc = "build_page_num_regions"
    /\ image = Blank(TestPageW, TestPageH)
    /\ args.cfg.anchors = <<"top">>
    /\ args.cfg.positions = <<"left", "right">>
    /\ Len(ret.regions) = 2
    /\ ret.regions[1] = [name |-> <<"top", "left">>, box |-> <<0, 0, 280, 81>>]
    /\ ret.regions[2] = [name |-> <<"top", "right">>, box |-> <<720, 0, 1000, 81>>]

\* ------------------------------------------- raw OCR text kept per region
\* The regions scanned by the extraction that has ended: all of them when
\* no attempt was accepted, those up to the accepting one otherwise.
ScannedRegions ==
    IF ret.printed_page # <<>>
    THEN { regions[i] : i \in 1 .. region_idx }
    ELSE { regions[i] : i \in 1 .. Len(regions) }

\* The raw text of the last OCR attempt made on the region.
LastRawOf(region_name) ==
    LET on_region == { i \in 1 .. Len(calls) : calls[i].region = region_name }
    IN  calls[SetMax(on_region)].raw

EndedWithEngine ==
    /\ pc = "done"
    /\ resolved_tesseract(args) # None

\* C28: after extract_printed_page_number has run with an engine,
\* raw_by_region holds an entry with the raw OCR text for every region
\* scanned: all configured regions when nothing was accepted, the regions up
\* to and including the accepting one otherwise.  The text kept for a region
\* is that of the last attempt made on it.
C28_RawKeptForEveryScannedRegion ==
    EndedWithEngine =>
        /\ DOMAIN ret.raw_by_region = ScannedRegions
        /\ ScannedRegions = { calls[i].region : i \in 1 .. Len(calls) }
        /\ \A r \in ScannedRegions : ret.raw_by_region[r] = LastRawOf(r)
        /\ ret.printed_page # <<>> =>
              /\ ret.region_used = regions[region_idx]
              /\ ret.raw_by_region[ret.region_used] = calls[Len(calls)].raw

\* The second region accepted a Roman numeral after the first region gave
\* text that was not accepted: both have their entry.
C28_Witness ==
    /\ EndedWithEngine
    /\ ret.printed_page_kind = "roman"
    /\ region_idx = 2
    /\ DOMAIN ret.raw_by_region = {regions[1], regions[2]}
    /\ ret.raw_by_region[regions[1]] # <<>>
    /\ ret.raw_by_region[regions[2]] = <<"i", "v">>

\* ------------------------------------------------- the decision to split
\* The scan of the input directory behind a path.
ScanAt(path) == CHOOSE f \in args.listing : f.stem = path.stem

\* width >= 2 and (mode = split, or mode = auto and the scan is a spread:
\* height > 0 and width / height >= split_ratio)
SplitExpected(f) ==
    /\ f.width >= 2
    /\ \/ args.options.mode = "split"
       \/ /\ args.options.mode = "auto"
          /\ f.height > 0
          /\ f.width * args.options.split_ratio[2] >=
                 args.options.split_ratio[1] * f.height

\* The recorded actions of the images the loop went through.
ImageActions ==
    { recorder_actions[i] : i \in 1 .. Len(recorder_actions) } \
        { a \in { recorder_actions[i] : i \in 1 .. Len(recorder_actions) } :
            a.status = "error" }

\* The inputs that went through the split branch.
SplitCalls ==
    { effects[i].path : i \in { j \in 1 .. Len(effects) :
                                  effects[j].op = "apply_split_symmetry_strategy" } }

\* C29: in page_images_in_folder an image is split if and only if its width
\* is >= 2 and (mode = split, or mode = auto and detect_spread holds: height
\* > 0 and width / height >= split_ratio); with mode = crop or width < 2 it
\* is never split, so the split branch never runs on an image less than
\* 2 px wide.  A split image has exactly two outputs (<stem>_L, <stem>_R), a
\* non-split image exactly one, under its own name.
C29_SplitIffWideEnoughAndModeAllows ==
    /\ \A a \in ImageActions :
          LET f == ScanAt(a.input)
          IN  /\ (a.mode_used = "split") <=> SplitExpected(f)
              /\ a.mode_used \in {"split", "crop"}
              /\ a.mode_used = "split" =>
                    a.outputs = << File(args.out_dir, Append(f.stem, "_L")),
                                   File(args.out_dir, Append(f.stem, "_R")) >>
              /\ a.mode_used = "crop" => a.outputs = << File(args.out_dir, f.stem) >>
              /\ (args.options.mode = "crop" \/ f.width < 2) => a.mode_used = "crop"
    /\ \A p \in SplitCalls : ScanAt(p).width >= 2 /\ SplitExpected(ScanAt(p))
    /\ \A a \in ImageActions :
          (a.status # "skipped" /\ a.mode_used = "split") => a.input \in SplitCalls

\* In one run with mode = split a 4 x 2 scan was split into a_L and a_R and
\* a scan 1 px wide was cropped only.
C29_Witness ==
    /\ pc = "done"
    /\ args.options.mode = "split"
    /\ \E a \in ImageActions :
          /\ ScanAt(a.input).width = 4
          /\ a.status = "written"
          /\ a.mode_used = "split"
          /\ Len(a.outputs) = 2
    /\ \E a \in ImageActions :
          /\ ScanAt(a.input).width = 1
          /\ a.status = "written"
          /\ a.mode_used = "crop"
          /\ Len(a.outputs) = 1

\* ------------------------------------------------- the counters of a run
Tally(c) == c.processed = c.split_count + c.crop_only_count

\* The loop is at an image.
AtImage == pc = "loop" /\ position < Len(files)

\* The step added exactly one action record, for the image the loop is at,
\* of status written, dry-run or skipped, and incremented exactly one of
\* processed and skipped.
OneRecordOneCounter ==
    /\ Len(recorder_actions') = Len(recorder_actions) + 1
    /\ SubSeq(recorder_actions', 1, Len(recorder_actions)) = recorder_actions
    /\ LET a == recorder_actions'[Len(recorder_actions')]
       IN  /\ a.status \in {"written", "dry-run", "skipped"}
           /\ a.input = File(args.in_dir, files[position + 1].stem)
           /\ \/ /\ a.status # "skipped"
                 /\ counters'.processed = counters.processed + 1
                 /\ counters'.skipped = counters.skipped
              \/ /\ a.status = "skipped"
                 /\ counters'.skipped = counters.skipped + 1
                 /\ counters'.processed = counters.processed
    /\ position' = position + 1

\* The summary of a run that completed without error adds up.
SummaryAddsUp ==
    pc' = "done" =>
        /\ ret'.raised = None
        /\ ret'.summary.processed + ret'.summary.skipped = ret'.summary.files_found
        /\ ret'.summary.processed = counters.processed
        /\ ret'.summary.skipped = counters.skipped
        /\ ret'.summary.files_found = Len(files)

====
